---- MODULE Spec2Model ----
(***************************************************************************)
(* A model of the ecoQuest configuration server                            *)
(* (src/web-config/node-js/server.js): the Express handlers of             *)
(* GET /api/get-config and POST /api/set-lines, the MQTT message handler,  *)
(* and the broker as far as the handlers observe it.                       *)
(*                                                                         *)
(* JavaScript values are records tagged by t.  A number is the decimal     *)
(* m * 10^e (k = "fin", normalised: m = 0 => e = 0, otherwise 10 does not  *)
(* divide m), or an infinity (k = "inf", sign in m), or NaN (k = "nan").   *)
(* A string is a sequence of one-character strings.  String(x), parseInt,  *)
(* parseFloat and the number tokens of JSON text are computed on these     *)
(* characters as ECMAScript defines them.                                  *)
(***************************************************************************)
EXTENDS Integers, Sequences, FiniteSets, TLC

\* ------------------------------------------------------------ JS values

Undef == [t |-> "undefined"]
JNull == [t |-> "null"]
JBool(b) == [t |-> "boolean", b |-> b]
JStr(s) == [t |-> "string", s |-> s]
JArr(a) == [t |-> "array", a |-> a]
JObj(keys, vals) == [t |-> "object", keys |-> keys, vals |-> vals]
Num(m, e) == [t |-> "number", k |-> "fin", m |-> m, e |-> e]
Infinity == [t |-> "number", k |-> "inf", m |-> 1, e |-> 0]
NaN == [t |-> "number", k |-> "nan", m |-> 0, e |-> 0]

Abs(n) == IF n < 0 THEN 0 - n ELSE n

\* typeof v === 'number'
IsNumber(v) == v.t = "number"

\* isNaN(v), for v a number
IsNaN(v) == v.t = "number" /\ v.k = "nan"

\* v < 0, for v a number
IsNegative(v) == v.t = "number" /\ v.k # "nan" /\ v.m < 0

\* Number.isInteger(v)
NumberIsInteger(v) == v.t = "number" /\ v.k = "fin" /\ v.e >= 0

\* !v : the falsy values among those a JSON body or a stored payload can hold
Falsy(v) ==
    \/ v.t \in {"undefined", "null"}
    \/ v.t = "string" /\ v.s = <<>>
    \/ v.t = "number" /\ (v.k = "nan" \/ (v.k = "fin" /\ v.m = 0))
    \/ v.t = "boolean" /\ ~v.b

\* Array.isArray(v)
IsArray(v) == v.t = "array"

\* v.length, for v an array
Length(v) == Len(v.a)

\* v[i] with a 0-based index i, for v an array: undefined beyond the end
At(v, i) == IF i + 1 \in 1..Len(v.a) THEN v.a[i + 1] ELSE Undef

\* ------------------------------------------------------------ characters

DigitChars == <<"0", "1", "2", "3", "4", "5", "6", "7", "8", "9">>

IsDigit(c) == \E i \in 1..10 : DigitChars[i] = c

DigitVal(c) == (CHOOSE i \in 1..10 : DigitChars[i] = c) - 1

IsWhite(c) == c \in {" ", "\t", "\n"}

Zeros(n) == [i \in 1..n |-> "0"]

RECURSIVE IntDigits(_)
\* the decimal digits of the natural number n
IntDigits(n) ==
    IF n < 10 THEN <<DigitChars[n + 1]>>
    ELSE IntDigits(n \div 10) \o <<DigitChars[(n % 10) + 1]>>

RECURSIVE DigitsInt(_)
\* the natural number a digit sequence spells (the empty sequence: 0)
DigitsInt(ds) ==
    IF ds = <<>> THEN 0
    ELSE 10 * DigitsInt(SubSeq(ds, 1, Len(ds) - 1)) + DigitVal(ds[Len(ds)])

\* the length of the longest prefix of s made of digits
DigitPrefixLen(s) ==
    IF \A i \in 1..Len(s) : IsDigit(s[i]) THEN Len(s)
    ELSE (CHOOSE i \in 1..Len(s) :
            ~IsDigit(s[i]) /\ \A j \in 1..(i - 1) : IsDigit(s[j])) - 1

\* s without its leading white space
TrimStart(s) ==
    IF \A i \in 1..Len(s) : IsWhite(s[i]) THEN <<>>
    ELSE SubSeq(s, CHOOSE i \in 1..Len(s) :
                      ~IsWhite(s[i]) /\ \A j \in 1..(i - 1) : IsWhite(s[j]),
                Len(s))

StartsWith(s, p) == Len(s) >= Len(p) /\ SubSeq(s, 1, Len(p)) = p

Drop(s, n) == SubSeq(s, n + 1, Len(s))

\* the number of trailing "0" characters of ds
TrailingZeros(ds) ==
    IF \A i \in 1..Len(ds) : ds[i] = "0" THEN Len(ds)
    ELSE Len(ds) - (CHOOSE i \in 1..Len(ds) :
                      ds[i] # "0" /\ \A j \in (i + 1)..Len(ds) : ds[j] = "0")

\* the number sign * ds * 10^e0, for a digit sequence ds, normalised
DigitsToNum(sign, ds, e0) ==
    LET z == TrailingZeros(ds)
        sig == SubSeq(ds, 1, Len(ds) - z)
    IN IF sig = <<>> THEN Num(0, 0)
       ELSE Num(sign * DigitsInt(sig), e0 + z)

\* ------------------------------------------------------------ conversions

Chars_NaN == <<"N", "a", "N">>
Chars_Infinity == <<"I", "n", "f", "i", "n", "i", "t", "y">>

\* String(x) for a number x (ECMAScript Number::toString, radix 10)
NumberToString(x) ==
    IF x.k = "nan" THEN Chars_NaN
    ELSE IF x.k = "inf"
    THEN (IF x.m < 0 THEN <<"-">> ELSE <<>>) \o Chars_Infinity
    ELSE IF x.m = 0 THEN <<"0">>
    ELSE
      LET s == IntDigits(Abs(x.m))
          k == Len(s)
          n == k + x.e
          ex == n - 1
          expo == <<"e", IF ex < 0 THEN "-" ELSE "+">> \o IntDigits(Abs(ex))
          body ==
            IF k <= n /\ n <= 21 THEN s \o Zeros(n - k)
            ELSE IF 0 < n /\ n <= 21
            THEN SubSeq(s, 1, n) \o <<".">> \o SubSeq(s, n + 1, k)
            ELSE IF -6 < n /\ n <= 0 THEN <<"0", ".">> \o Zeros(0 - n) \o s
            ELSE IF k = 1 THEN s \o expo
            ELSE <<s[1], ".">> \o Tail(s) \o expo
      IN (IF x.m < 0 THEN <<"-">> ELSE <<>>) \o body

\* the sign a numeric string starts with, and the string after it
SignOf(s) == IF s # <<>> /\ s[1] = "-" THEN 0 - 1 ELSE 1
Unsigned(s) == IF s # <<>> /\ s[1] \in {"+", "-"} THEN Tail(s) ELSE s

\* parseInt(s, 10) for the characters s
ParseIntChars(s) ==
    LET t == TrimStart(s)
        u == Unsigned(t)
        n == DigitPrefixLen(u)
    IN IF n = 0 THEN NaN ELSE DigitsToNum(SignOf(t), SubSeq(u, 1, n), 0)

\* the value of an exponent part at the head of s ("e", optional sign, digits),
\* 0 when s does not start with one
ExponentOf(s) ==
    IF s = <<>> \/ s[1] \notin {"e", "E"} THEN 0
    ELSE LET r == Tail(s)
             u == Unsigned(r)
             n == DigitPrefixLen(u)
         IN IF n = 0 THEN 0 ELSE SignOf(r) * DigitsInt(SubSeq(u, 1, n))

\* parseFloat(s) for the characters s: the longest prefix that is a
\* StrDecimalLiteral, NaN when there is none
ParseFloatChars(s) ==
    LET t == TrimStart(s)
        sg == SignOf(t)
        u == Unsigned(t)
        ni == DigitPrefixLen(u)
        int == SubSeq(u, 1, ni)
        r1 == Drop(u, ni)
        dot == r1 # <<>> /\ r1[1] = "."
        nf == IF dot THEN DigitPrefixLen(Tail(r1)) ELSE 0
        frac == IF dot THEN SubSeq(Tail(r1), 1, nf) ELSE <<>>
        r2 == IF dot THEN Drop(Tail(r1), nf) ELSE r1
    IN IF StartsWith(u, Chars_Infinity)
       THEN [t |-> "number", k |-> "inf", m |-> sg, e |-> 0]
       ELSE IF ni = 0 /\ nf = 0 THEN NaN
       ELSE DigitsToNum(sg, int \o frac, ExponentOf(r2) - nf)

\* whether the characters s are exactly one JSON number token:
\* -? (0 | [1-9] digits) (. digits+)? ([eE] [+-]? digits+)?
IsJsonNumber(s) ==
    LET u == IF s # <<>> /\ s[1] = "-" THEN Tail(s) ELSE s
        ni == DigitPrefixLen(u)
        r1 == Drop(u, ni)
        dot == r1 # <<>> /\ r1[1] = "."
        nf == IF dot THEN DigitPrefixLen(Tail(r1)) ELSE 0
        r2 == IF dot THEN Drop(Tail(r1), nf) ELSE r1
        ex == r2 # <<>> /\ r2[1] \in {"e", "E"}
        r3 == IF ex THEN Unsigned(Tail(r2)) ELSE r2
        ne == IF ex THEN DigitPrefixLen(r3) ELSE 0
    IN /\ ni >= 1
       /\ (ni > 1 => u[1] # "0")
       /\ (dot => nf >= 1)
       /\ (ex => ne >= 1 /\ ne = Len(r3))
       /\ (~ex => r2 = <<>>)

\* ------------------------------------------------------------ JSON text
\* A JSON text is kept as the tree of its tokens: a number token holds its
\* characters, so writing a number and reading it back goes through
\* NumberToString and the number grammar.

JNumTok(s) == [t |-> "jnum", s |-> s]
JNullTok == [t |-> "jnull"]
JBoolTok(b) == [t |-> "jbool", b |-> b]
JStrTok(s) == [t |-> "jstr", s |-> s]
JArrTok(a) == [t |-> "jarr", a |-> a]
JObjTok(keys, vals) == [t |-> "jobj", keys |-> keys, vals |-> vals]

RECURSIVE JsonStringify(_)
\* JSON.stringify(v): a number that is not finite, and undefined inside an
\* array, are written as null
JsonStringify(v) ==
    CASE v.t = "number" ->
           IF v.k = "fin" THEN JNumTok(NumberToString(v)) ELSE JNullTok
      [] v.t = "string" -> JStrTok(v.s)
      [] v.t = "boolean" -> JBoolTok(v.b)
      [] v.t = "array" -> JArrTok([i \in 1..Len(v.a) |-> JsonStringify(v.a[i])])
      [] v.t = "object" ->
           JObjTok(v.keys, [i \in 1..Len(v.vals) |-> JsonStringify(v.vals[i])])
      [] OTHER -> JNullTok

RECURSIVE JsonParseTree(_)
\* JSON.parse of a well-formed JSON text
JsonParseTree(j) ==
    CASE j.t = "jnum" -> ParseFloatChars(j.s)
      [] j.t = "jstr" -> JStr(j.s)
      [] j.t = "jbool" -> JBool(j.b)
      [] j.t = "jarr" -> JArr([i \in 1..Len(j.a) |-> JsonParseTree(j.a[i])])
      [] j.t = "jobj" ->
           JObj(j.keys, [i \in 1..Len(j.vals) |-> JsonParseTree(j.vals[i])])
      [] OTHER -> JNull

\* ------------------------------------------------------------ payloads
\* An MQTT payload, as message.toString() gives it: plain text, or the text
\* of a JSON array, object or string (kept as its tree).

Text(s) == [t |-> "text", s |-> s]
JsonText(j) == [t |-> "json", v |-> j]

\* the characters a payload starts with, as far as parseInt and parseFloat
\* read them: a JSON array, object or string starts with a bracket or a quote
PayloadChars(p) ==
    IF p.t = "text" THEN p.s
    ELSE CASE p.v.t = "jobj" -> <<"{">>
           [] p.v.t = "jarr" -> <<"[">>
           [] OTHER -> <<"\"">>

\* what a failed call raises (SyntaxError of JSON.parse, TypeError of a
\* property read on undefined or null)
Throw == [t |-> "throw"]

Chars_null == <<"n", "u", "l", "l">>

\* JSON.parse(p) for a stored payload p
JsonParse(p) ==
    IF p.t = "json" THEN JsonParseTree(p.v)
    ELSE IF IsJsonNumber(p.s) THEN ParseFloatChars(p.s)
    ELSE IF p.s = Chars_null THEN JNull
    ELSE Throw

\* v[key] for a property name key that is not an index
GetProp(v, key) ==
    IF v.t \in {"undefined", "null", "throw"} THEN Throw
    ELSE IF v.t = "object" /\ \E i \in 1..Len(v.keys) : v.keys[i] = key
    THEN v.vals[CHOOSE i \in 1..Len(v.keys) : v.keys[i] = key]
    ELSE Undef

\* v[i] for a 0-based index i
Index(v, i) ==
    IF v.t \in {"undefined", "null", "throw"} THEN Throw
    ELSE IF v.t = "array" THEN At(v, i)
    ELSE IF v.t = "string" /\ i + 1 \in 1..Len(v.s) THEN JStr(<<v.s[i + 1]>>)
    ELSE Undef

\* key in v, for a name key that is no index: a TypeError unless v is an
\* object or an array
InThrows(v) == v.t \notin {"object", "array"}

HasKey(key, v) == v.t = "object" /\ \E i \in 1..Len(v.keys) : v.keys[i] = key

\* { ...a, ...b } for objects a and b: the keys of a, then the new keys of b,
\* with the values of b where it has the key
Spread(a, b) ==
    LET keys == a.keys \o SelectSeq(b.keys, LAMBDA k : ~HasKey(k, a))
    IN JObj(keys, [i \in 1..Len(keys) |->
                     IF HasKey(keys[i], b) THEN GetProp(b, keys[i])
                     ELSE GetProp(a, keys[i])])

\* ------------------------------------------------------------ bounds

\* the POST /api/set-lines requests of a run with overlapping requests
MaxReq == 2
\* the publishes that may fail in one run
MaxFail == 2
\* the publishes that may fail in one run with overlapping requests
MaxFailOverlap == 1
\* the connections a client makes in a run with reconnections
MaxConnect == 2
\* the web clients of the relay
MaxClients == 2
\* the geometric crossings of one run
MaxCrossings == 4
\* the reset commands of one run
MaxResets == 1
\* the largest timestamp of a crossing
MaxTime == 2
\* the POST requests the editor sends in one run
MaxPosts == 2
\* the longest time the clock is asked to show, in seconds
MaxSeconds == 125

\* ------------------------------------------------------------ config server

MQTT_TOPIC_CONFIG_START == "config/start_line"
MQTT_TOPIC_CONFIG_FINISH == "config/finish_line"
MQTT_TOPIC_CONFIG_LAP == "config/lap_line"
MQTT_TOPIC_CONFIG_TOTAL_LAPS == "config/total_laps"
MQTT_TOPIC_IDEAL_TIME == "config/ideal_time"

configTopics ==
    <<MQTT_TOPIC_CONFIG_START, MQTT_TOPIC_CONFIG_FINISH, MQTT_TOPIC_CONFIG_LAP,
      MQTT_TOPIC_CONFIG_TOTAL_LAPS, MQTT_TOPIC_IDEAL_TIME>>

Topics == {configTopics[i] : i \in 1..Len(configTopics)}

LineTopics ==
    {MQTT_TOPIC_CONFIG_START, MQTT_TOPIC_CONFIG_FINISH, MQTT_TOPIC_CONFIG_LAP}

VARIABLES
    connected,      \* mqttClient.connected
    subscribed,     \* the broker has granted the subscription to configTopics
    currentConfig,  \* topic -> the last payload received, or null
    received,       \* history: topic -> the payload of the last message
                    \* handed to mqttClient.on('message') on it, or null
    reqs,           \* the POST /api/set-lines requests: body, closure, responses
    pub,            \* request, topic -> the state of the publish: "idle",
                    \* "sent", "taken" (by the broker), "ok" or "err" (the
                    \* callback was called without or with an error)
    wire,           \* publishes handed to the client, not yet at the broker
    retained,       \* the broker: topic -> retained payload, or null
    inbox,          \* messages the broker has sent to this subscriber
    connects,       \* history: the number of 'connect' events so far
    subLog,         \* history: the subscribe requests issued, each with the
                    \* number of the connection it was issued on
    \* the web display relay (src/web-display/node-js/server.js)
    relayLink,      \* the relay's MQTT client is connected to the broker
    relayConnects,  \* history: the number of the relay's 'connect' events
    relaySubLog,    \* history: the subscribe requests the relay issued
    relayGranted,   \* the broker: topics granted to the relay's connection
    mqttConnected,  \* let mqttConnected
    raceData,       \* let raceData
    speedData,      \* let speedData
    sockets,        \* the web clients connected to io
    delivered,      \* web client -> the last emission it received, or none
    relayLast,      \* history: the event the relay handled last and the
                    \* emissions its handler made
    relayUp,        \* the relay's process runs: no exception has escaped a
                    \* handler
    pages,          \* web client -> currentRaceData, currentSpeedKmh and
                    \* isMqttConnected of the page it has open
                    \* (src/unnamed/part_000)
    casts,          \* history: event -> the data of the last io.emit of it
    \* the onboard detector and race state machine
    total_laps,     \* RaceConfig.total_laps as configured now
    raceState,      \* RaceState: "Idle", "Running" or "Finished"
    lapNumber,      \* the number of the lap being driven, 0 while Idle
    lapStart,       \* the start timestamp of the lap being driven
    lapHistory,     \* the LapRecords of the completed laps, in order
    lastTimestamp,  \* the last timestamp the state machine recorded
    lastCrossing,   \* the detector: gate -> timestamp of its last crossing
                    \* event
    raceEvents,     \* history: the race events emitted since the last reset
    crossingLog,    \* history: the geometric crossings since the last reset
    crossed,        \* history: the number of geometric crossings so far
    resets,         \* history: the number of reset commands so far
    \* the line editor (src/web-config/node-js/public/script.js, 232-575)
    drawnLines,     \* const drawnLines: line type -> its layer, or null
    drawnItems,     \* const drawnItems: the layers of the feature group
    currentLineType, \* let currentLineType; currentDrawingTool is set
                    \* exactly while it is
    saveDisabled,   \* btnSaveLines.disabled
    totalLapsInput, \* totalLapsInput.value
    idealTimeInput, \* idealTimeInput.value
    loading,        \* the GET /api/get-config of loadInitialConfig is in flight
    saving,         \* the number of POST /api/set-lines requests in flight
    posted,         \* history: the number of POST requests sent so far
    editorLast,     \* history: the handler of the editor that ran last
    \* the lap clock of the display page (src/unnamed/part_000)
    seconds,        \* the argument of formatTimeJS
    clock           \* what formatTimeJS returned for it, or none

\* the connection history of the configuration server
linkVars == <<connects, subLog>>

relayVars ==
    <<relayLink, relayConnects, relaySubLog, relayGranted, mqttConnected,
      raceData, speedData, sockets, delivered, relayLast, relayUp, pages, casts>>

raceVars ==
    <<total_laps, raceState, lapNumber, lapStart, lapHistory, lastTimestamp,
      lastCrossing, raceEvents, crossingLog, crossed, resets>>

\* the configuration server and the broker as it sees it
configVars ==
    <<connected, subscribed, currentConfig, received, reqs, pub, wire, retained,
      inbox, linkVars>>

editorVars ==
    <<drawnLines, drawnItems, currentLineType, saveDisabled, totalLapsInput,
      idealTimeInput, loading, saving, posted, editorLast>>

clockVars == <<seconds, clock>>

\* the two browser pages
pageVars == <<editorVars, clockVars>>

vars ==
    <<connected, subscribed, currentConfig, received, reqs, pub, wire, retained,
      inbox, linkVars, relayVars, raceVars, pageVars>>

\* ---- POST /api/set-lines: validation

MsgMissing == "Missing line data (start, finish, or lap)."
MsgLineFormat ==
    "Incorrect line format. Each line must be an array of two [lat, lon] points."
MsgPointFormat ==
    "Incorrect point format within a line. Points must be [lat, lon] arrays."
MsgTotalLaps == "Invalid total laps value. Must be a whole number >= 0."
MsgIdealTime == "Invalid ideal time value. Must be a number >= 0."
MsgNotConnected == "MQTT client not connected. Cannot save configuration."
MsgPublishError == "Error publishing some configuration parts."
MsgSuccess == "All lines and config published successfully!"
MsgTimeout ==
    "Timeout waiting for all MQTT publish confirmations. Some settings might not have saved."

Response(status, message, details) ==
    [status |-> status, message |-> message, details |-> details]

isValidPoint(p) ==
    /\ IsArray(p)
    /\ Length(p) = 2
    /\ IsNumber(At(p, 0))
    /\ IsNumber(At(p, 1))

IsTwoArray(l) == IsArray(l) /\ Length(l) = 2

\* a validation that lets a negative ideal time through
Validate_AllowsNegativeIdealTime(body) ==
    IF Falsy(body.start) \/ Falsy(body.finish) \/ Falsy(body.lap)
    THEN MsgMissing
    ELSE IF ~IsTwoArray(body.start) \/ ~IsTwoArray(body.finish)
            \/ ~IsTwoArray(body.lap)
    THEN MsgLineFormat
    ELSE IF \E l \in {body.start, body.finish, body.lap} :
              ~isValidPoint(At(l, 0)) \/ ~isValidPoint(At(l, 1))
    THEN MsgPointFormat
    ELSE IF \/ body.totalLaps.t \in {"undefined", "null"}
            \/ ~IsNumber(body.totalLaps)
            \/ IsNegative(body.totalLaps)
            \/ ~NumberIsInteger(body.totalLaps)
    THEN MsgTotalLaps
    ELSE IF \/ body.idealTime.t \in {"undefined", "null"}
            \/ ~IsNumber(body.idealTime)
    THEN MsgIdealTime
    ELSE "ok"

\* the validation of the request body: the message of the 400 answer, or "ok"
Validate(body) ==
    IF Falsy(body.start) \/ Falsy(body.finish) \/ Falsy(body.lap)
    THEN MsgMissing
    ELSE IF ~IsTwoArray(body.start) \/ ~IsTwoArray(body.finish)
            \/ ~IsTwoArray(body.lap)
    THEN MsgLineFormat
    ELSE IF \E l \in {body.start, body.finish, body.lap} :
              ~isValidPoint(At(l, 0)) \/ ~isValidPoint(At(l, 1))
    THEN MsgPointFormat
    ELSE IF \/ body.totalLaps.t \in {"undefined", "null"}
            \/ ~IsNumber(body.totalLaps)
            \/ IsNegative(body.totalLaps)
            \/ ~NumberIsInteger(body.totalLaps)
    THEN MsgTotalLaps
    ELSE IF \/ body.idealTime.t \in {"undefined", "null"}
            \/ ~IsNumber(body.idealTime)
            \/ IsNegative(body.idealTime)
    THEN MsgIdealTime
    ELSE "ok"

\* ---- POST /api/set-lines: the publish tasks

\* entries that do not name the item
ErrorEntry_Unnamed(topic) == "Failed."

\* the entry errors.push adds when the publish on a topic fails
ErrorEntry(topic) ==
    CASE topic = MQTT_TOPIC_CONFIG_START -> "Failed Start line."
      [] topic = MQTT_TOPIC_CONFIG_FINISH -> "Failed Finish line."
      [] topic = MQTT_TOPIC_CONFIG_LAP -> "Failed Lap line."
      [] topic = MQTT_TOPIC_CONFIG_TOTAL_LAPS -> "Failed Total Laps config."
      [] topic = MQTT_TOPIC_IDEAL_TIME -> "Failed Ideal Time config."

\* a payload that keeps the posted [lat, lon] order
LinePayload_Unswapped(line) ==
    JsonText(JsonStringify(JObj(<<"p1", "p2">>, <<At(line, 0), At(line, 1)>>)))

\* JSON.stringify({ p1: [line[0][1], line[0][0]], p2: [line[1][1], line[1][0]] })
LinePayload(line) ==
    JsonText(JsonStringify(JObj(<<"p1", "p2">>,
        <<JArr(<<At(At(line, 0), 1), At(At(line, 0), 0)>>),
          JArr(<<At(At(line, 1), 1), At(At(line, 1), 0)>>)>>)))

\* String(value)
ConfigPayload(value) == Text(NumberToString(value))

\* tasks that publish the lap line on the finish topic too
PublishTasks_LapOnFinish(body) ==
    <<[topic |-> MQTT_TOPIC_CONFIG_START, payload |-> LinePayload(body.start)],
      [topic |-> MQTT_TOPIC_CONFIG_FINISH, payload |-> LinePayload(body.lap)],
      [topic |-> MQTT_TOPIC_CONFIG_LAP, payload |-> LinePayload(body.lap)],
      [topic |-> MQTT_TOPIC_CONFIG_TOTAL_LAPS,
       payload |-> ConfigPayload(body.totalLaps)],
      [topic |-> MQTT_TOPIC_IDEAL_TIME, payload |-> ConfigPayload(body.idealTime)]>>

\* linesToPublish, then configToPublish: the five publishes of one request
PublishTasks(body) ==
    <<[topic |-> MQTT_TOPIC_CONFIG_START, payload |-> LinePayload(body.start)],
      [topic |-> MQTT_TOPIC_CONFIG_FINISH, payload |-> LinePayload(body.finish)],
      [topic |-> MQTT_TOPIC_CONFIG_LAP, payload |-> LinePayload(body.lap)],
      [topic |-> MQTT_TOPIC_CONFIG_TOTAL_LAPS,
       payload |-> ConfigPayload(body.totalLaps)],
      [topic |-> MQTT_TOPIC_IDEAL_TIME, payload |-> ConfigPayload(body.idealTime)]>>

totalTasks == 5

\* options that do not ask the broker to retain
publishOptions_NoRetain == [qos |-> 2, retain |-> FALSE]

\* const publishOptions = { qos: 2, retain: true }
publishOptions == [qos |-> 2, retain |-> TRUE]

\* ---- POST /api/set-lines: the closure of one request

NoBody == [t |-> "none"]

\* a request not yet received
NewRequest ==
    [phase |-> "new", body |-> NoBody, errors |-> <<>>, successes |-> 0,
     responseSent |-> FALSE, timer |-> "none", sent |-> <<>>]

Send(q, resp) == [q EXCEPT !.sent = Append(@, resp)]

\* a completion check that reports the first failure at once
checkCompletion_FailsFast(q) ==
    IF q.responseSent THEN q
    ELSE IF Len(q.errors) > 0
    THEN Send([q EXCEPT !.responseSent = TRUE],
              Response(500, MsgPublishError, q.errors))
    ELSE IF q.successes + Len(q.errors) = totalTasks
    THEN Send([q EXCEPT !.responseSent = TRUE], Response(200, MsgSuccess, <<>>))
    ELSE q

\* a completion check that does not look at the errors
checkCompletion_IgnoresErrors(q) ==
    IF q.responseSent THEN q
    ELSE IF q.successes + Len(q.errors) = totalTasks
    THEN Send([q EXCEPT !.responseSent = TRUE], Response(200, MsgSuccess, <<>>))
    ELSE q

checkCompletion(q) ==
    IF q.responseSent THEN q
    ELSE IF q.successes + Len(q.errors) = totalTasks
    THEN IF Len(q.errors) > 0
         THEN Send([q EXCEPT !.responseSent = TRUE],
                   Response(500, MsgPublishError, q.errors))
         ELSE Send([q EXCEPT !.responseSent = TRUE],
                   Response(200, MsgSuccess, <<>>))
    ELSE q

\* a callback that counts a failed publish as a success
PublishCallback_CountsFailure(q, topic, err) ==
    checkCompletion([q EXCEPT !.successes = @ + 1])

\* the callback of mqttClient.publish for a topic, with or without an error
PublishCallback(q, topic, err) ==
    checkCompletion(
        IF err
        THEN [q EXCEPT !.errors = Append(@, ErrorEntry(topic))]
        ELSE [q EXCEPT !.successes = @ + 1])

\* counters kept at module level: every open request sees every callback
OnPublishDone_Shared(rs, r, topic, err) ==
    [x \in DOMAIN rs |->
        IF x = r \/ rs[x].phase = "open"
        THEN PublishCallback(rs[x], topic, err)
        ELSE rs[x]]

\* errors, successes and responseSent are locals of the handler's call: the
\* callback of request r changes the closure of request r
OnPublishDone(rs, r, topic, err) ==
    [rs EXCEPT ![r] = PublishCallback(@, topic, err)]

\* a timeout that answers like a confirmed failure
TimeoutCallback_AsFailure(q) ==
    IF ~q.responseSent
    THEN Send([q EXCEPT !.responseSent = TRUE, !.timer = "fired"],
              Response(500, MsgPublishError, q.errors))
    ELSE [q EXCEPT !.timer = "fired"]

\* a timeout that answers without looking at responseSent
TimeoutCallback_Unguarded(q) ==
    Send([q EXCEPT !.responseSent = TRUE, !.timer = "fired"],
         Response(508, MsgTimeout, q.errors))

\* a timeout that never answers
TimeoutCallback_Silent(q) == [q EXCEPT !.timer = "fired"]

\* the callback of setTimeout
TimeoutCallback(q) ==
    IF ~q.responseSent
    THEN Send([q EXCEPT !.responseSent = TRUE, !.timer = "fired"],
              Response(508, MsgTimeout, q.errors))
    ELSE [q EXCEPT !.timer = "fired"]

\* ---- the message handler

\* ---- mqttClient.on('connect')

\* a subscribe request issued on connection number n, not yet answered
SubscribeRequest(n, topics, qos) ==
    [conn |-> n, topics |-> topics, qos |-> qos, state |-> "pending"]

\* a handler that subscribes on the first connection only
OnConnect_FirstOnly(log, n) ==
    IF n = 1 THEN Append(log, SubscribeRequest(n, Topics, 2)) ELSE log

\* mqttClient.on('connect'): mqttClient.subscribe(configTopics, { qos: 2 }, ..)
OnConnect(log, n) == Append(log, SubscribeRequest(n, Topics, 2))

\* what the broker sends on a granted subscription: the retained message of
\* every topic that has one
RetainedMessages(topics) ==
    SelectSeq([i \in 1..Len(configTopics) |->
                  [topic |-> configTopics[i], payload |-> retained[configTopics[i]]]],
              LAMBDA m : m.topic \in topics /\ m.payload # JNull)

\* ---- mqttClient.on('message')

\* the history of the messages handed to mqttClient.on('message'): per
\* topic, the payload of the last one
Received(hist, topic, payload) ==
    IF topic \in DOMAIN hist THEN [hist EXCEPT ![topic] = payload] ELSE hist

\* a handler that stores the payload of any topic
OnMessage_StoresAnyTopic(cfg, topic, payload) ==
    [t \in DOMAIN cfg \cup {topic} |-> IF t = topic THEN payload ELSE cfg[t]]

\* a handler that forgets the other topics when a message arrives
OnMessage_ResetsOthers(cfg, topic, payload) ==
    IF topic \in Topics
    THEN [t \in Topics |-> IF t = topic THEN payload ELSE JNull]
    ELSE cfg

\* mqttClient.on('message'): the payload replaces the stored value of a config
\* topic; a message on another topic is ignored
OnMessage(cfg, topic, payload) ==
    IF topic \in Topics THEN [cfg EXCEPT ![topic] = payload] ELSE cfg

\* ---- GET /api/get-config

MsgParseError == "Error parsing stored line configuration from MQTT."

\* if (currentConfig[topic]) : null and the empty string are falsy
Stored(p) == p # JNull /\ ~(p.t = "text" /\ p.s = <<>>)

\* a parse that raises when nothing is stored
ParseLine_ThrowsOnNull(p) ==
    LET data == JsonParse(IF Stored(p) THEN p ELSE Text(<<>>))
        p1 == GetProp(data, "p1")
        p2 == GetProp(data, "p2")
        a == Index(p1, 1)
        b == Index(p1, 0)
        c == Index(p2, 1)
        d == Index(p2, 0)
    IN IF Throw \in {data, p1, p2, a, b, c, d} THEN Throw
       ELSE JArr(<<JArr(<<a, b>>), JArr(<<c, d>>)>>)

\* one line of the response: null when nothing is stored; Throw when
\* JSON.parse or a read of data.p1[..], data.p2[..] raises
ParseLine(p) ==
    IF ~Stored(p) THEN JNull
    ELSE LET data == JsonParse(p)
             p1 == GetProp(data, "p1")
             p2 == GetProp(data, "p2")
             a == Index(p1, 1)
             b == Index(p1, 0)
             c == Index(p2, 1)
             d == Index(p2, 0)
         IN IF Throw \in {data, p1, p2, a, b, c, d} THEN Throw
            ELSE JArr(<<JArr(<<a, b>>), JArr(<<c, d>>)>>)

DefaultTotalLaps == Num(0, 0)
DefaultIdealTime == Num(6, 1)

\* a parse that keeps NaN instead of the default
ParseTotalLaps_KeepsNaN(p) ==
    IF Stored(p) THEN ParseIntChars(PayloadChars(p)) ELSE DefaultTotalLaps

ParseTotalLaps(p) ==
    IF Stored(p)
    THEN LET v == ParseIntChars(PayloadChars(p))
         IN IF IsNaN(v) THEN DefaultTotalLaps ELSE v
    ELSE DefaultTotalLaps

ParseIdealTime(p) ==
    IF Stored(p)
    THEN LET v == ParseFloatChars(PayloadChars(p))
         IN IF IsNaN(v) THEN DefaultIdealTime ELSE v
    ELSE DefaultIdealTime

\* the answer of GET /api/get-config for the stored configuration cfg
GetConfig(cfg) ==
    LET start == ParseLine(cfg[MQTT_TOPIC_CONFIG_START])
        finish == ParseLine(cfg[MQTT_TOPIC_CONFIG_FINISH])
        lap == ParseLine(cfg[MQTT_TOPIC_CONFIG_LAP])
    IN IF Throw \in {start, finish, lap}
       THEN [status |-> 500, message |-> MsgParseError]
       ELSE [status |-> 200,
             body |-> [start |-> start, finish |-> finish, lap |-> lap,
                       totalLaps |-> ParseTotalLaps(cfg[MQTT_TOPIC_CONFIG_TOTAL_LAPS]),
                       idealTime |-> ParseIdealTime(cfg[MQTT_TOPIC_IDEAL_TIME])]]

\* ------------------------------------------------------------ inputs

Lat1 == Num(496, -1)
Lat2 == Num(49601, -3)
Lon1 == Num(61, -1)
Lon2 == Num(62, -1)
Lon3 == Num(-7065, -2)

Pt(lat, lon) == JArr(<<lat, lon>>)
Line(p, q) == JArr(<<p, q>>)

LineA == Line(Pt(Lat1, Lon1), Pt(Lat2, Lon1))
LineB == Line(Pt(Lat1, Lon2), Pt(Lat2, Lon2))
LineC == Line(Pt(Lat2, Lon3), Pt(Lat1, Lon3))
\* a degenerate segment: both points the same
LineDegenerate == Line(Pt(Lat1, Lon1), Pt(Lat1, Lon1))

BodyA ==
    [start |-> LineA, finish |-> LineC, lap |-> LineB,
     totalLaps |-> Num(3, 0), idealTime |-> Num(955, -1)]

BodyB ==
    [start |-> LineB, finish |-> LineA, lap |-> LineC,
     totalLaps |-> Num(12, 0), idealTime |-> Num(6, 1)]

\* values a line field can hold that are not two [number, number] points
BadLines ==
    {Undef, JNull, Num(0, 0), Num(7, 0), JStr(<<>>), JStr(<<"a", "b">>),
     JArr(<<>>), JArr(<<Pt(Lat1, Lon1)>>),
     JArr(<<Pt(Lat1, Lon1), Pt(Lat2, Lon1), Pt(Lat2, Lon2)>>),
     Line(Pt(Lat1, Lon1), JNull),
     Line(JArr(<<Lat1>>), Pt(Lat2, Lon1)),
     Line(Pt(Lat1, Lon1), JArr(<<Lat2, Lon1, Lon2>>)),
     Line(Pt(Lat1, JStr(<<"6">>)), Pt(Lat2, Lon1)),
     Line(Pt(Lat1, Lon1), Pt(JNull, Lon1))}

GoodLines == {LineDegenerate, LineB}

BadTotalLaps ==
    {Undef, JNull, JStr(<<"3">>), Num(-1, 0), Num(25, -1), Infinity}

GoodTotalLaps == {Num(0, 0), Num(1, 21)}

BadIdealTime == {Undef, JNull, JStr(<<"6", "0">>), Num(-5, -1)}

GoodIdealTime == {Num(0, 0), Num(1, -7), Infinity}

\* the request bodies: BodyA, and BodyA with one field replaced
Bodies ==
    {BodyA}
    \cup {[BodyA EXCEPT !.start = l] : l \in BadLines \cup GoodLines}
    \cup {[BodyA EXCEPT !.finish = l] : l \in BadLines \cup {LineDegenerate}}
    \cup {[BodyA EXCEPT !.lap = l] : l \in BadLines \cup {LineDegenerate}}
    \cup {[BodyA EXCEPT !.totalLaps = n] : n \in BadTotalLaps \cup GoodTotalLaps}
    \cup {[BodyA EXCEPT !.idealTime = n] : n \in BadIdealTime \cup GoodIdealTime}

\* the bodies of the runs with several requests: the first posts BodyA, a
\* later one replays it or posts BodyB
ReplayBodies(r) == IF r = 1 THEN {BodyA} ELSE {BodyA, BodyB}

\* payloads other publishers leave on a line topic
StoreLinePayloads ==
    {LinePayload(LineA), Text(<<>>), Text(<<"a", "b", "c">>),
     JsonText(JObjTok(<<"p1">>, <<JArrTok(<<JNumTok(<<"6">>), JNumTok(<<"4", "9">>)>>)>>)),
     JsonText(JObjTok(<<"p1", "p2">>, <<JStrTok(<<"a", "b">>), JNumTok(<<"5">>)>>))}

\* payloads other publishers leave on config/total_laps and config/ideal_time
StoreScalarPayloads ==
    {Text(<<>>), Text(<<"0">>), Text(<<"3">>), Text(<<"-", "2">>),
     Text(<<"3", ".", "7">>), Text(<<"1", "2", "a", "b", "c">>),
     Text(<<"a", "b", "c">>), Text(<<" ", ".", "5">>),
     Text(<<"1", "e", "+", "2", "1">>), Text(Chars_Infinity),
     LinePayload(LineA)}

OTHER_TOPIC == "gps/status"

\* payloads of a topic that is no config topic
StoreOtherPayloads == {Text(<<"a", "b", "c">>), LinePayload(LineA)}

StorePayloads(topic) ==
    IF topic \in LineTopics THEN StoreLinePayloads
    ELSE IF topic \in Topics THEN StoreScalarPayloads
    ELSE StoreOtherPayloads

\* ------------------------------------------------------------ the relay
\* src/web-display/node-js/server.js

MQTT_TOPIC_GPS == "gps/status"
MQTT_TOPIC_SPEED == "car/speed"
RelayTopics == {MQTT_TOPIC_GPS, MQTT_TOPIC_SPEED}

Clients == 1..MaxClients

requiredKeys ==
    <<"current_lap", "total_laps", "last_lap_time_seconds", "race_finished",
      "current_lap_elapsed_seconds">>

\* let raceData = { current_lap: 0, total_laps: 0, last_lap_time_seconds: null,
\*                  race_finished: false, current_lap_elapsed_seconds: null }
InitialRaceData ==
    JObj(requiredKeys, <<Num(0, 0), Num(0, 0), JNull, JBool(FALSE), JNull>>)

\* let speedData = { speed_kmh: 0.0 }
InitialSpeedData == JObj(<<"speed_kmh">>, <<Num(0, 0)>>)

\* an emission: to "all" (io.emit) or to one "socket" (socket.emit)
Emission(to, event, data) == [to |-> to, event |-> event, data |-> data]
NoEmission == [to |-> "none"]

\* { connected: b }
StatusData(b) == JObj(<<"connected">>, <<JBool(b)>>)

\* what a handler leaves: the two data objects and its emissions
Handled(race, speed, emits) ==
    [raceData |-> race, speedData |-> speed, emits |-> emits, thrown |-> FALSE]

\* client.on('connect'): the two subscribe requests, QoS 1 and QoS 0
RelayOnConnect(log, n) ==
    log \o <<SubscribeRequest(n, {MQTT_TOPIC_GPS}, 1),
             SubscribeRequest(n, {MQTT_TOPIC_SPEED}, 0)>>

\* a handler without the try: a SyntaxError of JSON.parse escapes it
RelayOnMessage_NoCatch(race, speed, topic, message) ==
    LET payload == JsonParse(message)
    IN IF payload = Throw
       THEN [raceData |-> race, speedData |-> speed, emits |-> <<>>,
             thrown |-> TRUE]
       ELSE IF topic = MQTT_TOPIC_GPS
       THEN IF InThrows(payload) THEN Handled(race, speed, <<>>)
            ELSE IF \A i \in 1..Len(requiredKeys) : HasKey(requiredKeys[i], payload)
            THEN LET merged == Spread(race, payload)
                 IN Handled(merged, speed, <<Emission("all", "race_update", merged)>>)
            ELSE Handled(race, speed, <<>>)
       ELSE IF topic = MQTT_TOPIC_SPEED
       THEN IF InThrows(payload) THEN Handled(race, speed, <<>>)
            ELSE IF HasKey("speed_kmh", payload)
            THEN LET merged ==
                       Spread(speed, JObj(<<"speed_kmh">>,
                                          <<GetProp(payload, "speed_kmh")>>))
                 IN Handled(race, merged, <<Emission("all", "speed_update", merged)>>)
            ELSE Handled(race, speed, <<>>)
       ELSE Handled(race, speed, <<>>)

\* a handler that takes a payload with any one of the required keys
RelayOnMessage_AnyKey(race, speed, topic, message) ==
    LET payload == JsonParse(message)
    IN IF payload = Throw THEN Handled(race, speed, <<>>)
       ELSE IF topic = MQTT_TOPIC_GPS
       THEN IF InThrows(payload) THEN Handled(race, speed, <<>>)
            ELSE IF \E i \in 1..Len(requiredKeys) : HasKey(requiredKeys[i], payload)
            THEN LET merged == Spread(race, payload)
                 IN Handled(merged, speed, <<Emission("all", "race_update", merged)>>)
            ELSE Handled(race, speed, <<>>)
       ELSE IF topic = MQTT_TOPIC_SPEED
       THEN IF InThrows(payload) THEN Handled(race, speed, <<>>)
            ELSE IF HasKey("speed_kmh", payload)
            THEN LET merged ==
                       Spread(speed, JObj(<<"speed_kmh">>,
                                          <<GetProp(payload, "speed_kmh")>>))
                 IN Handled(race, merged, <<Emission("all", "speed_update", merged)>>)
            ELSE Handled(race, speed, <<>>)
       ELSE Handled(race, speed, <<>>)

\* client.on('message'): a throw of JSON.parse or of the in operator is
\* caught and logged, so that no exception escapes the handler
RelayOnMessage(race, speed, topic, message) ==
    LET payload == JsonParse(message)
    IN IF payload = Throw THEN Handled(race, speed, <<>>)
       ELSE IF topic = MQTT_TOPIC_GPS
       THEN IF InThrows(payload) THEN Handled(race, speed, <<>>)
            ELSE IF \A i \in 1..Len(requiredKeys) : HasKey(requiredKeys[i], payload)
            THEN LET merged == Spread(race, payload)
                 IN Handled(merged, speed, <<Emission("all", "race_update", merged)>>)
            ELSE Handled(race, speed, <<>>)
       ELSE IF topic = MQTT_TOPIC_SPEED
       THEN IF InThrows(payload) THEN Handled(race, speed, <<>>)
            ELSE IF HasKey("speed_kmh", payload)
            THEN LET merged ==
                       Spread(speed, JObj(<<"speed_kmh">>,
                                          <<GetProp(payload, "speed_kmh")>>))
                 IN Handled(race, merged, <<Emission("all", "speed_update", merged)>>)
            ELSE Handled(race, speed, <<>>)
       ELSE Handled(race, speed, <<>>)

\* an initial state that always reports the bus as down
InitialState_FlagFalse(race, speed, flag) ==
    JObj(<<"raceData", "speedData", "mqttConnected">>,
         <<race, speed, JBool(FALSE)>>)

\* io.on('connection'): { raceData, speedData, mqttConnected }
InitialState(race, speed, flag) ==
    JObj(<<"raceData", "speedData", "mqttConnected">>, <<race, speed, JBool(flag)>>)

\* what the connected web clients hold after the emissions of a handler
Broadcast(view, to, emits) ==
    IF emits = <<>> THEN view
    ELSE [c \in Clients |-> IF c \in to THEN emits[Len(emits)] ELSE view[c]]

\* v ?? d
Nullish(v, d) == IF v.t \in {"undefined", "null"} THEN d ELSE v

\* data as the page gets it: socket.io carries it as JSON text
OnWire(data) == JsonParseTree(JsonStringify(data))

\* let currentSpeedKmh = 0; let currentRaceData = {}; let isMqttConnected = false
InitialPage ==
    [currentRaceData |-> JObj(<<>>, <<>>), currentSpeedKmh |-> Num(0, 0),
     isMqttConnected |-> JBool(FALSE)]

\* data?.speed_kmh
OptionalSpeed(data) ==
    IF data.t \in {"undefined", "null"} THEN Undef ELSE GetProp(data, "speed_kmh")

\* socket.on('initial_state'), socket.on('race_update'),
\* socket.on('speed_update') and socket.on('mqtt_status') of the page
PageOn(page, event, data) ==
    IF event = "initial_state"
    THEN [currentRaceData |-> GetProp(data, "raceData"),
          currentSpeedKmh |->
              Nullish(OptionalSpeed(GetProp(data, "speedData")), Num(0, 0)),
          isMqttConnected |-> GetProp(data, "mqttConnected")]
    ELSE IF event = "race_update"
    THEN [page EXCEPT !.currentRaceData = data]
    ELSE IF event = "speed_update"
    THEN [page EXCEPT !.currentSpeedKmh = Nullish(OptionalSpeed(data), Num(0, 0))]
    ELSE IF event = "mqtt_status"
    THEN [page EXCEPT !.isMqttConnected = GetProp(data, "connected")]
    ELSE page

RECURSIVE PageOnAll(_, _)
\* the page after the emissions of a handler, in order
PageOnAll(page, emits) ==
    IF emits = <<>> THEN page
    ELSE PageOnAll(PageOn(page, emits[1].event, OnWire(emits[1].data)),
                   Tail(emits))

RECURSIVE Receive(_, _, _)
\* the pages after each web client in to has handled the emissions of a
\* handler
Receive(view, to, emits) ==
    IF to = {} \/ emits = <<>> THEN view
    ELSE LET c == CHOOSE x \in to : TRUE
         IN Receive([view EXCEPT ![c] = PageOnAll(@, emits)], to \ {c}, emits)

\* no io.emit of the event yet
NoCast == [t |-> "none"]

RECURSIVE Cast(_, _)
\* the last data broadcast per event, after the emissions of a handler
Cast(last, emits) ==
    IF emits = <<>> THEN last
    ELSE Cast(IF emits[1].to = "all"
              THEN [last EXCEPT ![emits[1].event] = emits[1].data]
              ELSE last,
              Tail(emits))

\* the event a handler ran for
RelayEvent(name, topic, message, emits) ==
    [name |-> name, topic |-> topic, message |-> message, emits |-> emits]

\* ---- messages the relay receives

\* the payload the READMEs document for gps/status
GpsDocumented ==
    JsonText(JObjTok(
        <<"has_fix", "fix_quality", "num_satellites", "latitude", "longitude",
          "speed_knots", "timestamp">>,
        <<JBoolTok(TRUE), JNumTok(<<"2">>), JNumTok(<<"8">>),
          JNumTok(<<"4", "9", ".", "6">>), JNumTok(<<"6", ".", "1">>),
          JNumTok(<<"5", ".", "2">>),
          JNumTok(<<"6", "4", "0", "1", ".", "5">>)>>))

\* payloads with the five keys the relay requires
RaceStatus1 ==
    JsonText(JObjTok(requiredKeys,
        <<JNumTok(<<"1">>), JNumTok(<<"3">>), JNullTok, JBoolTok(FALSE),
          JNumTok(<<"1", "2", ".", "5">>)>>))

RaceStatus2 ==
    JsonText(JObjTok(requiredKeys \o <<"timestamp">>,
        <<JNumTok(<<"2">>), JNumTok(<<"3">>), JNumTok(<<"5", "8", ".", "7">>),
          JBoolTok(FALSE), JNumTok(<<"0">>), JNumTok(<<"7">>)>>))

\* one required key is missing
RacePartial ==
    JsonText(JObjTok(SubSeq(requiredKeys, 1, 4),
        <<JNumTok(<<"2">>), JNumTok(<<"3">>), JNullTok, JBoolTok(TRUE)>>))

GpsPayloads ==
    {GpsDocumented, RaceStatus1, RaceStatus2, RacePartial,
     Text(<<"a", "b", "c">>), Text(<<"5">>), JsonText(JArrTok(<<>>))}

SpeedPayloads ==
    {JsonText(JObjTok(<<"speed_kmh">>, <<JNumTok(<<"4", "2", ".", "5">>)>>)),
     JsonText(JObjTok(<<"speed">>, <<JNumTok(<<"3">>)>>)),
     Text(Chars_null), Text(<<"{">>)}

RelayPayloads(topic) ==
    IF topic = MQTT_TOPIC_GPS THEN GpsPayloads ELSE SpeedPayloads

NoMessage == [t |-> "none"]

\* ---- the race state machine and the detector's debounce

Gates == {"start", "lap", "finish"}

\* no timestamp recorded yet
NoTime == -1

\* the timestamps of the crossings
Times == 0..MaxTime

\* the lap targets that get configured: 0 is an endurance run
LapTargets == {0, 2}

\* the dwell window of the debounce, in the unit of the timestamps
DwellWindow == 2

CrossingEvent(gate, timestamp) == [gate |-> gate, timestamp |-> timestamp]

LapRecord(n, start, end) ==
    [lap_number |-> n, start_timestamp |-> start, end_timestamp |-> end,
     duration_seconds |-> end - start]

\* the events of race/laps; race_finished carries the lap history
RaceStarted(total, ts) ==
    [event |-> "race_started", lap_number_starting |-> 1, total_laps |-> total,
     timestamp |-> ts]

LapCompleted(rec, total) ==
    [event |-> "lap_completed", lap_number |-> rec.lap_number,
     total_laps |-> total, lap_time_seconds |-> rec.duration_seconds,
     timestamp |-> rec.end_timestamp]

RaceFinished(history, total, ts) ==
    [event |-> "race_finished", total_laps |-> total, timestamp |-> ts,
     laps |-> history]

\* the state the machine owns
Machine(state, lap, start, history, last) ==
    [state |-> state, lap |-> lap, start |-> start, history |-> history,
     last |-> last]

IdleMachine == Machine("Idle", 0, NoTime, <<>>, NoTime)

Transition(m, emits) == [m |-> m, emits |-> emits]

\* a crossing event earlier than the last recorded timestamp
OutOfOrder(m, ev) == m.last # NoTime /\ ev.timestamp < m.last

\* a machine that lets an out-of-order lap crossing through
OnCrossing_NoOrderCheck(m, total, ev) ==
    IF m.state = "Idle" /\ ev.gate = "start"
    THEN Transition(Machine("Running", 1, ev.timestamp, <<>>, ev.timestamp),
                    <<RaceStarted(total, ev.timestamp)>>)
    ELSE IF m.state = "Running" /\ ev.gate \in {"lap", "finish"}
    THEN LET rec == LapRecord(m.lap, m.start, ev.timestamp)
             history == Append(m.history, rec)
         IN IF ev.gate = "finish" \/ (total > 0 /\ m.lap + 1 > total)
            THEN Transition(Machine("Finished", m.lap, m.start, history,
                                    ev.timestamp),
                            <<RaceFinished(history, total, ev.timestamp)>>)
            ELSE Transition(Machine("Running", m.lap + 1, ev.timestamp,
                                    history, ev.timestamp),
                            <<LapCompleted(rec, total)>>)
    ELSE Transition(m, <<>>)

\* a machine that keeps counting laps once Finished
OnCrossing_LapsWhenFinished(m, total, ev) ==
    IF OutOfOrder(m, ev) THEN Transition(m, <<>>)
    ELSE IF m.state = "Idle" /\ ev.gate = "start"
    THEN Transition(Machine("Running", 1, ev.timestamp, <<>>, ev.timestamp),
                    <<RaceStarted(total, ev.timestamp)>>)
    ELSE IF m.state \in {"Running", "Finished"} /\ ev.gate = "lap"
    THEN LET rec == LapRecord(m.lap, m.start, ev.timestamp)
         IN Transition(Machine(m.state, m.lap + 1, ev.timestamp,
                               Append(m.history, rec), ev.timestamp),
                       <<LapCompleted(rec, total)>>)
    ELSE IF m.state = "Running" /\ ev.gate = "finish"
    THEN LET history == Append(m.history,
                               LapRecord(m.lap, m.start, ev.timestamp))
         IN Transition(Machine("Finished", m.lap, m.start, history,
                               ev.timestamp),
                       <<RaceFinished(history, total, ev.timestamp)>>)
    ELSE Transition(m, <<>>)

\* a machine that does not close the lap driven up to the finish line
OnCrossing_FinishKeepsLapOpen(m, total, ev) ==
    IF OutOfOrder(m, ev) THEN Transition(m, <<>>)
    ELSE IF m.state = "Idle" /\ ev.gate = "start"
    THEN Transition(Machine("Running", 1, ev.timestamp, <<>>, ev.timestamp),
                    <<RaceStarted(total, ev.timestamp)>>)
    ELSE IF m.state = "Running" /\ ev.gate = "lap"
    THEN LET rec == LapRecord(m.lap, m.start, ev.timestamp)
         IN Transition(Machine("Running", m.lap + 1, ev.timestamp,
                               Append(m.history, rec), ev.timestamp),
                       <<LapCompleted(rec, total)>>)
    ELSE IF m.state = "Running" /\ ev.gate = "finish" /\ m.history # <<>>
    THEN Transition(Machine("Finished", m.lap, m.start, m.history,
                            ev.timestamp),
                    <<RaceFinished(m.history, total, ev.timestamp)>>)
    ELSE Transition(m, <<>>)

\* RaceStateMachine: the transition a crossing event causes.
\*   an out-of-order event is discarded;
\*   Idle, start line: Running, lap 1 starts, race_started;
\*   Running, lap line: the lap is closed and the next one opened,
\*     lap_completed; when a target is set and the new lap exceeds it, the
\*     crossing finishes the race instead;
\*   Running, finish line: the final lap is closed, Finished, race_finished;
\*   every other crossing is ignored.
OnCrossing(m, total, ev) ==
    IF OutOfOrder(m, ev) THEN Transition(m, <<>>)
    ELSE IF m.state = "Idle" /\ ev.gate = "start"
    THEN Transition(Machine("Running", 1, ev.timestamp, <<>>, ev.timestamp),
                    <<RaceStarted(total, ev.timestamp)>>)
    ELSE IF m.state = "Running" /\ ev.gate \in {"lap", "finish"}
    THEN LET rec == LapRecord(m.lap, m.start, ev.timestamp)
             history == Append(m.history, rec)
         IN IF ev.gate = "finish" \/ (total > 0 /\ m.lap + 1 > total)
            THEN Transition(Machine("Finished", m.lap, m.start, history,
                                    ev.timestamp),
                            <<RaceFinished(history, total, ev.timestamp)>>)
            ELSE Transition(Machine("Running", m.lap + 1, ev.timestamp,
                                    history, ev.timestamp),
                            <<LapCompleted(rec, total)>>)
    ELSE Transition(m, <<>>)

\* a debounce that compares with the wrong sign
Debounced_Never(last, ts) == last # NoTime /\ last - ts >= DwellWindow

\* CrossingDetector: the gate crossed at ts registered a crossing at last,
\* less than the dwell window before
Debounced(last, ts) == last # NoTime /\ ts - last < DwellWindow

\* one geometric crossing as the history keeps it
Logged(gate, ts, event, total) ==
    [gate |-> gate, timestamp |-> ts, event |-> event, total_laps |-> total]

\* ------------------------------------------------------------ actions

NumErrors == Cardinality({x \in (1..MaxReq) \X Topics : pub[x[1]][x[2]] = "err"})

\* a handler whose publishes overtake the publishes still waiting
PostSetLines_JumpsQueue(r, body) ==
    /\ reqs[r].phase = "new"
    /\ \A r2 \in 1..(r - 1) : reqs[r2].phase # "new"
    /\ LET verdict == Validate(body)
           q == [reqs[r] EXCEPT !.body = body]
       IN IF verdict # "ok"
          THEN /\ reqs' = [reqs EXCEPT ![r] =
                             Send([q EXCEPT !.phase = "done"],
                                  Response(400, verdict, <<>>))]
               /\ UNCHANGED <<pub, wire, pageVars>>
          ELSE IF ~connected
          THEN /\ reqs' = [reqs EXCEPT ![r] =
                             Send([q EXCEPT !.phase = "done"],
                                  Response(500, MsgNotConnected, <<>>))]
               /\ UNCHANGED <<pub, wire, pageVars>>
          ELSE /\ reqs' = [reqs EXCEPT ![r] =
                             [q EXCEPT !.phase = "open", !.timer = "armed"]]
               /\ pub' = [pub EXCEPT ![r] = [t \in Topics |-> "sent"]]
               /\ wire' = [i \in 1..totalTasks |->
                                     [req |-> r,
                                      topic |-> PublishTasks(body)[i].topic,
                                      payload |-> PublishTasks(body)[i].payload,
                                      options |-> publishOptions]] \o wire
    /\ UNCHANGED <<connected, subscribed, currentConfig, received, retained, inbox,
                 linkVars, relayVars, raceVars, pageVars>>

\* a handler that writes what it publishes into the stored configuration
PostSetLines_WritesStore(r, body) ==
    /\ reqs[r].phase = "new"
    /\ \A r2 \in 1..(r - 1) : reqs[r2].phase # "new"
    /\ LET verdict == Validate(body)
           q == [reqs[r] EXCEPT !.body = body]
       IN IF verdict # "ok"
          THEN /\ reqs' = [reqs EXCEPT ![r] =
                             Send([q EXCEPT !.phase = "done"],
                                  Response(400, verdict, <<>>))]
               /\ UNCHANGED <<pub, wire, currentConfig, pageVars>>
          ELSE IF ~connected
          THEN /\ reqs' = [reqs EXCEPT ![r] =
                             Send([q EXCEPT !.phase = "done"],
                                  Response(500, MsgNotConnected, <<>>))]
               /\ UNCHANGED <<pub, wire, currentConfig, pageVars>>
          ELSE /\ reqs' = [reqs EXCEPT ![r] =
                             [q EXCEPT !.phase = "open", !.timer = "armed"]]
               /\ pub' = [pub EXCEPT ![r] = [t \in Topics |-> "sent"]]
               /\ wire' = wire \o [i \in 1..totalTasks |->
                                     [req |-> r,
                                      topic |-> PublishTasks(body)[i].topic,
                                      payload |-> PublishTasks(body)[i].payload,
                                      options |-> publishOptions]]
               /\ currentConfig' =
                    [t \in Topics |->
                        LET i == CHOOSE j \in 1..totalTasks :
                                    PublishTasks(body)[j].topic = t
                        IN PublishTasks(body)[i].payload]
    /\ UNCHANGED <<connected, subscribed, received, retained, inbox,
                 linkVars, relayVars, raceVars, pageVars>>

\* a handler without the connection check
PostSetLines_NoConnectionCheck(r, body) ==
    /\ reqs[r].phase = "new"
    /\ \A r2 \in 1..(r - 1) : reqs[r2].phase # "new"
    /\ LET verdict == Validate(body)
           q == [reqs[r] EXCEPT !.body = body]
       IN IF verdict # "ok"
          THEN /\ reqs' = [reqs EXCEPT ![r] =
                             Send([q EXCEPT !.phase = "done"],
                                  Response(400, verdict, <<>>))]
               /\ UNCHANGED <<pub, wire, pageVars>>
          ELSE IF FALSE
          THEN /\ reqs' = [reqs EXCEPT ![r] =
                             Send([q EXCEPT !.phase = "done"],
                                  Response(500, MsgNotConnected, <<>>))]
               /\ UNCHANGED <<pub, wire, pageVars>>
          ELSE /\ reqs' = [reqs EXCEPT ![r] =
                             [q EXCEPT !.phase = "open", !.timer = "armed"]]
               /\ pub' = [pub EXCEPT ![r] = [t \in Topics |-> "sent"]]
               /\ wire' = wire \o [i \in 1..totalTasks |->
                                     [req |-> r,
                                      topic |-> PublishTasks(body)[i].topic,
                                      payload |-> PublishTasks(body)[i].payload,
                                      options |-> publishOptions]]
    /\ UNCHANGED <<connected, subscribed, currentConfig, received, retained, inbox,
                 linkVars, relayVars, raceVars, pageVars>>

\* app.post('/api/set-lines'): request r arrives with the given body
PostSetLines(r, body) ==
    /\ reqs[r].phase = "new"
    /\ \A r2 \in 1..(r - 1) : reqs[r2].phase # "new"
    /\ LET verdict == Validate(body)
           q == [reqs[r] EXCEPT !.body = body]
       IN IF verdict # "ok"
          THEN /\ reqs' = [reqs EXCEPT ![r] =
                             Send([q EXCEPT !.phase = "done"],
                                  Response(400, verdict, <<>>))]
               /\ UNCHANGED <<pub, wire, pageVars>>
          ELSE IF ~connected
          THEN /\ reqs' = [reqs EXCEPT ![r] =
                             Send([q EXCEPT !.phase = "done"],
                                  Response(500, MsgNotConnected, <<>>))]
               /\ UNCHANGED <<pub, wire, pageVars>>
          ELSE /\ reqs' = [reqs EXCEPT ![r] =
                             [q EXCEPT !.phase = "open", !.timer = "armed"]]
               /\ pub' = [pub EXCEPT ![r] = [t \in Topics |-> "sent"]]
               /\ wire' = wire \o [i \in 1..totalTasks |->
                                     [req |-> r,
                                      topic |-> PublishTasks(body)[i].topic,
                                      payload |-> PublishTasks(body)[i].payload,
                                      options |-> publishOptions]]
    /\ UNCHANGED <<connected, subscribed, currentConfig, received, retained, inbox,
                 linkVars, relayVars, raceVars, pageVars>>

\* the broker takes the next publish of the connection: the payload becomes
\* the retained value of the topic, when the retain flag is set, and goes to
\* the subscribers
BrokerReceive ==
    /\ connected
    /\ wire # <<>>
    /\ LET m == Head(wire)
       IN /\ retained' = IF m.options.retain
                         THEN [retained EXCEPT ![m.topic] = m.payload]
                         ELSE retained
          /\ pub' = [pub EXCEPT ![m.req][m.topic] = "taken"]
          /\ inbox' = IF subscribed
                      THEN Append(inbox, [topic |-> m.topic, payload |-> m.payload])
                      ELSE inbox
    /\ wire' = Tail(wire)
    /\ UNCHANGED <<connected, subscribed, currentConfig, received, reqs,
                 linkVars, relayVars, raceVars, pageVars>>

\* the publish of request r on a topic is acknowledged: callback without error
PublishAck(r, topic) ==
    /\ pub[r][topic] = "taken"
    /\ pub' = [pub EXCEPT ![r][topic] = "ok"]
    /\ reqs' = OnPublishDone(reqs, r, topic, FALSE)
    /\ UNCHANGED <<connected, subscribed, currentConfig, received, wire, retained, inbox,
                 linkVars, relayVars, raceVars, pageVars>>

\* the publish of request r on a topic fails: callback with an error, whether
\* or not the broker had taken the message
PublishFail(r, topic, limit) ==
    /\ pub[r][topic] \in {"sent", "taken"}
    /\ NumErrors < limit
    /\ pub' = [pub EXCEPT ![r][topic] = "err"]
    /\ wire' = SelectSeq(wire, LAMBDA m : ~(m.req = r /\ m.topic = topic))
    /\ reqs' = OnPublishDone(reqs, r, topic, TRUE)
    /\ UNCHANGED <<connected, subscribed, currentConfig, received, retained, inbox,
                 linkVars, relayVars, raceVars, pageVars>>

\* the 10 second timer of request r fires
Timeout(r) ==
    /\ reqs[r].timer = "armed"
    /\ reqs' = [reqs EXCEPT ![r] = TimeoutCallback(@)]
    /\ UNCHANGED <<connected, subscribed, currentConfig, received, pub, wire, retained, inbox,
                 linkVars, relayVars, raceVars, pageVars>>

\* the next message of the subscription reaches mqttClient.on('message')
Deliver ==
    /\ inbox # <<>>
    /\ currentConfig' = OnMessage(currentConfig, Head(inbox).topic, Head(inbox).payload)
    /\ received' = Received(received, Head(inbox).topic, Head(inbox).payload)
    /\ inbox' = Tail(inbox)
    /\ UNCHANGED <<connected, subscribed, reqs, pub, wire, retained,
                 linkVars, relayVars, raceVars, pageVars>>

\* a message of any publisher reaches mqttClient.on('message')
Message(topic, payload) ==
    /\ subscribed
    /\ currentConfig' = OnMessage(currentConfig, topic, payload)
    /\ received' = Received(received, topic, payload)
    /\ UNCHANGED <<connected, subscribed, reqs, pub, wire, retained, inbox,
                 linkVars, relayVars, raceVars, pageVars>>

\* the client (re)connects: 'connect' is emitted and the handler subscribes
Connect ==
    /\ ~connected
    /\ connects < MaxConnect
    /\ connected' = TRUE
    /\ connects' = connects + 1
    /\ subLog' = OnConnect(subLog, connects + 1)
    /\ UNCHANGED <<subscribed, currentConfig, received, reqs, pub, wire, retained,
                 inbox, relayVars, raceVars, pageVars>>

\* the broker answers the subscribe request of the present connection: the
\* callback is called, and a granted subscription brings the retained messages
SubscribeDone(err) ==
    /\ connected
    /\ \E i \in 1..Len(subLog) :
        /\ subLog[i].conn = connects
        /\ subLog[i].state = "pending"
        /\ subLog' = [subLog EXCEPT ![i].state = IF err THEN "failed" ELSE "granted"]
        /\ subscribed' = ~err
        /\ inbox' = IF err THEN inbox
                    ELSE inbox \o RetainedMessages(subLog[i].topics)
    /\ UNCHANGED <<connected, currentConfig, received, reqs, pub, wire, retained,
                 connects, relayVars, raceVars, pageVars>>

\* the connection is lost: the broker drops the subscription of the session;
\* the client reconnects after reconnectPeriod
Close ==
    /\ connected
    /\ connected' = FALSE
    /\ subscribed' = FALSE
    /\ UNCHANGED <<currentConfig, received, reqs, pub, wire, retained, inbox,
                 linkVars, relayVars, raceVars, pageVars>>

\* ---- the relay

\* the relay's client (re)connects: client.on('connect')
RelayConnect ==
    /\ relayUp
    /\ ~relayLink
    /\ relayConnects < MaxConnect
    /\ relayLink' = TRUE
    /\ relayConnects' = relayConnects + 1
    /\ mqttConnected' = TRUE
    /\ relaySubLog' = RelayOnConnect(relaySubLog, relayConnects + 1)
    /\ LET emits == <<Emission("all", "mqtt_status", StatusData(TRUE))>>
       IN /\ delivered' = Broadcast(delivered, sockets, emits)
          /\ pages' = Receive(pages, sockets, emits)
          /\ casts' = Cast(casts, emits)
          /\ relayLast' = RelayEvent("connect", "", NoMessage, emits)
    /\ UNCHANGED <<relayGranted, raceData, speedData, sockets, relayUp,
                 configVars, raceVars, pageVars>>

\* the broker answers a subscribe request of the present connection
RelaySubscribeDone(topic, err) ==
    /\ relayUp
    /\ relayLink
    /\ \E i \in 1..Len(relaySubLog) :
        /\ relaySubLog[i].conn = relayConnects
        /\ relaySubLog[i].topics = {topic}
        /\ relaySubLog[i].state = "pending"
        /\ relaySubLog' =
             [relaySubLog EXCEPT ![i].state = IF err THEN "failed" ELSE "granted"]
    /\ relayGranted' = IF err THEN relayGranted ELSE relayGranted \cup {topic}
    /\ UNCHANGED <<relayLink, relayConnects, mqttConnected, raceData, speedData,
                 sockets, delivered, relayLast, relayUp, pages, casts,
                 configVars, raceVars, pageVars>>

\* handlers of which client.on('error') leaves the flag as it is
RelayDown_ErrorKeepsFlag(event) ==
    /\ relayUp
    /\ event \in {"reconnect", "offline"} => ~relayLink
    /\ relayLink' = IF event = "close" THEN FALSE ELSE relayLink
    /\ relayGranted' = IF event = "close" THEN {} ELSE relayGranted
    /\ mqttConnected' = IF event = "error" THEN mqttConnected ELSE FALSE
    /\ LET emits == <<Emission("all", "mqtt_status", StatusData(FALSE))>>
       IN /\ delivered' = Broadcast(delivered, sockets, emits)
          /\ pages' = Receive(pages, sockets, emits)
          /\ casts' = Cast(casts, emits)
          /\ relayLast' = RelayEvent(event, "", NoMessage, emits)
    /\ UNCHANGED <<relayConnects, relaySubLog, raceData, speedData, sockets,
                 relayUp, configVars, raceVars, pageVars>>

\* client.on('reconnect'), client.on('close'), client.on('offline') and
\* client.on('error'): the flag is cleared and the clients are told; 'close'
\* ends the connection, 'reconnect' and 'offline' come while there is none
RelayDown(event) ==
    /\ relayUp
    /\ event \in {"reconnect", "offline"} => ~relayLink
    /\ relayLink' = IF event = "close" THEN FALSE ELSE relayLink
    /\ relayGranted' = IF event = "close" THEN {} ELSE relayGranted
    /\ mqttConnected' = FALSE
    /\ LET emits == <<Emission("all", "mqtt_status", StatusData(FALSE))>>
       IN /\ delivered' = Broadcast(delivered, sockets, emits)
          /\ pages' = Receive(pages, sockets, emits)
          /\ casts' = Cast(casts, emits)
          /\ relayLast' = RelayEvent(event, "", NoMessage, emits)
    /\ UNCHANGED <<relayConnects, relaySubLog, raceData, speedData, sockets,
                 relayUp, configVars, raceVars, pageVars>>

\* a message on a granted topic reaches client.on('message')
RelayMessage(topic, message) ==
    /\ relayUp
    /\ relayLink
    /\ topic \in relayGranted
    /\ LET h == RelayOnMessage(raceData, speedData, topic, message)
       IN /\ raceData' = h.raceData
          /\ speedData' = h.speedData
          /\ delivered' = Broadcast(delivered, sockets, h.emits)
          /\ relayLast' = RelayEvent("message", topic, message, h.emits)
          /\ pages' = Receive(pages, sockets, relayLast'.emits)
          /\ casts' = Cast(casts, relayLast'.emits)
          /\ relayUp' = ~h.thrown
    /\ UNCHANGED <<relayLink, relayConnects, relaySubLog, relayGranted,
                 mqttConnected, sockets, configVars, raceVars, pageVars>>

\* io.on('connection'): the new web client is sent the current state
ClientConnection(c) ==
    /\ relayUp
    /\ c \notin sockets
    /\ sockets' = sockets \cup {c}
    /\ LET emits == <<Emission("socket", "initial_state",
                              InitialState(raceData, speedData, mqttConnected))>>
       IN /\ delivered' = Broadcast(delivered, {c}, emits)
          /\ pages' = Receive(pages, {c}, emits)
          /\ casts' = Cast(casts, emits)
          /\ relayLast' = RelayEvent("connection", "", NoMessage, emits)
    /\ UNCHANGED <<relayLink, relayConnects, relaySubLog, relayGranted,
                 mqttConnected, raceData, speedData, relayUp, configVars, raceVars,
                 pageVars>>

\* socket.on('disconnect'): the web client leaves, its page is closed; the
\* page it connects with next starts anew
ClientDisconnect(c) ==
    /\ relayUp
    /\ c \in sockets
    /\ sockets' = sockets \ {c}
    /\ delivered' = [delivered EXCEPT ![c] = NoEmission]
    /\ pages' = [pages EXCEPT ![c] = InitialPage]
    /\ casts' = casts
    /\ relayLast' = RelayEvent("disconnect", "", NoMessage, <<>>)
    /\ UNCHANGED <<relayLink, relayConnects, relaySubLog, relayGranted,
                 mqttConnected, raceData, speedData, relayUp, configVars, raceVars,
                 pageVars>>

\* ---- the detector pipeline

\* a fix pair crosses a gate geometrically at ts: unless the debounce
\* suppresses it the detector emits a crossing event, which the state
\* machine handles before the next fix is taken
Crossing(gate, ts) ==
    /\ crossed < MaxCrossings
    /\ crossed' = crossed + 1
    /\ LET event == ~Debounced(lastCrossing[gate], ts)
           m == Machine(raceState, lapNumber, lapStart, lapHistory,
                        lastTimestamp)
           tr == IF event THEN OnCrossing(m, total_laps, CrossingEvent(gate, ts))
                 ELSE Transition(m, <<>>)
       IN /\ lastCrossing' = IF event THEN [lastCrossing EXCEPT ![gate] = ts]
                             ELSE lastCrossing
          /\ raceState' = tr.m.state
          /\ lapNumber' = tr.m.lap
          /\ lapStart' = tr.m.start
          /\ lapHistory' = tr.m.history
          /\ lastTimestamp' = tr.m.last
          /\ raceEvents' = raceEvents \o tr.emits
          /\ crossingLog' = Append(crossingLog, Logged(gate, ts, event, total_laps))
    /\ UNCHANGED <<total_laps, resets, configVars, relayVars, pageVars>>

\* the reset command: Idle, the lap history cleared, the debounce re-armed
Reset ==
    /\ resets < MaxResets
    /\ resets' = resets + 1
    /\ raceState' = IdleMachine.state
    /\ lapNumber' = IdleMachine.lap
    /\ lapStart' = IdleMachine.start
    /\ lapHistory' = IdleMachine.history
    /\ lastTimestamp' = IdleMachine.last
    /\ lastCrossing' = [g \in Gates |-> NoTime]
    /\ raceEvents' = <<>>
    /\ crossingLog' = <<>>
    /\ UNCHANGED <<total_laps, crossed, configVars, relayVars, pageVars>>

\* a value received on config/total_laps replaces the configured target
ConfigureLaps(n) ==
    /\ n # total_laps
    /\ total_laps' = n
    /\ UNCHANGED <<raceState, lapNumber, lapStart, lapHistory, lastTimestamp,
                 lastCrossing, raceEvents, crossingLog, crossed, resets,
                 configVars, relayVars, pageVars>>

\* ------------------------------------------------------------ the line editor
\* src/web-config/node-js/public/script.js: the later of the two editors the
\* file holds (lines 232-575)

LineTypes == {"start", "lap", "finish"}

\* drawnLines[type] = null
NoLayer == 0

\* currentLineType = null
NoType == "none"

\* the layer objects: two for each line type, the line that is held and
\* the line that replaces it
LayersOf(type) ==
    IF type = "start" THEN {1, 2} ELSE IF type = "lap" THEN {3, 4} ELSE {5, 6}

\* a layer that Leaflet creates for a line of the type: an object other
\* than the line held for the type
NewLayer(lines, type) ==
    CHOOSE l \in LayersOf(type) :
        /\ l # lines[type]
        /\ \A l2 \in LayersOf(type) : l2 # lines[type] => l <= l2

\* const canSave = drawnLines.start && drawnLines.lap && drawnLines.finish
canSave(lines) == \A t \in LineTypes : lines[t] # NoLayer

\* checkSaveButtonState(): the value it leaves in btnSaveLines.disabled
checkSaveButtonState(lines) == ~canSave(lines)

\* what the editor holds: the lines, the feature group and the two inputs
Editor(lines, items, laps, ideal) ==
    [drawnLines |-> lines, drawnItems |-> items, totalLaps |-> laps,
     idealTime |-> ideal]

\* clearAllLocalState(): no layer, no line, the inputs at 0 and at
\* defaultIdealTime
clearAllLocalState ==
    Editor([t \in LineTypes |-> NoLayer], {}, <<"0">>, <<"6", "0">>)

\* isNaN(v) for a coordinate v of a response: a number, or a string, which
\* is a number when it is empty or spells one
CoordIsNaN(v) ==
    IF v.t = "number" THEN IsNaN(v)
    ELSE v.t = "string" /\ v.s # <<>> /\ ~IsJsonNumber(v.s)

\* lineData.map(p => L.latLng(p[0], p[1])) throws: L.latLng raises
\* "Invalid LatLng object" for a coordinate that is not a number
LatLngsThrow(lineData) ==
    \E i \in 1..Len(lineData.a) :
        \/ CoordIsNaN(At(lineData.a[i], 0))
        \/ CoordIsNaN(At(lineData.a[i], 1))

\* drawLineFromConfig(lineData, type): a line of two points becomes a layer
\* of the feature group and the line of its type; nothing is added when the
\* conversion of its points throws
drawLineFromConfig(ed, lineData, type) ==
    IF Falsy(lineData) \/ Length(lineData) # 2 THEN ed
    ELSE IF LatLngsThrow(lineData) THEN ed
    ELSE LET line == NewLayer(ed.drawnLines, type)
         IN [ed EXCEPT !.drawnItems = @ \cup {line},
                       !.drawnLines[type] = line]

\* the value an input shows for the number of the response, or its default
InputValue(v, default) ==
    IF v.t \notin {"null", "undefined"} /\ ~IsNaN(v)
    THEN NumberToString(v) ELSE default

\* the response of GET /api/get-config did not come or was not ok
LoadFailed == [status |-> 0]

\* loadInitialConfig() from the response on: the local state is cleared, the
\* lines of the response are drawn in the order start, finish, lap, and the
\* inputs are set; a response that failed leaves the cleared state
loadInitialConfig(response) ==
    IF response.status # 200 THEN clearAllLocalState
    ELSE LET config == response.body
             s == drawLineFromConfig(clearAllLocalState, config.start, "start")
             f == drawLineFromConfig(s, config.finish, "finish")
             l == drawLineFromConfig(f, config.lap, "lap")
         IN [l EXCEPT !.totalLaps = InputValue(config.totalLaps, <<"0">>),
                      !.idealTime = InputValue(config.idealTime, <<"6", "0">>)]

\* a handler that replaces the line and leaves the old layer in the group
OnCreated_KeepsOldLayer(ed, type, points) ==
    IF points = 2
    THEN LET layer == NewLayer(ed.drawnLines, type)
         IN [ed EXCEPT !.drawnItems = @ \cup {layer},
                       !.drawnLines[type] = layer]
    ELSE ed

\* map.on(L.Draw.Event.CREATED) while a line type is being drawn: a layer
\* of two points replaces the line of the type, in drawnLines and in the
\* feature group
OnCreated(ed, type, points) ==
    IF points = 2
    THEN LET layer == NewLayer(ed.drawnLines, type)
             kept == IF ed.drawnLines[type] # NoLayer
                     THEN ed.drawnItems \ {ed.drawnLines[type]}
                     ELSE ed.drawnItems
         IN [ed EXCEPT !.drawnItems = kept \cup {layer},
                       !.drawnLines[type] = layer]
    ELSE ed

\* a validation without the test of the ideal lap time
ValidateSave_NoIdealTest(lines, laps, ideal) ==
    LET totalLaps == ParseIntChars(laps)
    IN IF ~canSave(lines) THEN "lines"
       ELSE IF IsNaN(totalLaps) \/ IsNegative(totalLaps)
               \/ ~NumberIsInteger(totalLaps)
       THEN "totalLaps"
       ELSE "send"

\* the click handler of btnSaveLines up to the request: what stops it, or
\* "send"
ValidateSave(lines, laps, ideal) ==
    LET totalLaps == ParseIntChars(laps)
        idealTime == ParseFloatChars(ideal)
    IN IF ~canSave(lines) THEN "lines"
       ELSE IF IsNaN(totalLaps) \/ IsNegative(totalLaps)
               \/ ~NumberIsInteger(totalLaps)
       THEN "totalLaps"
       ELSE IF IsNaN(idealTime) \/ IsNegative(idealTime) THEN "idealTime"
       ELSE "send"

\* the handler that ran last: a click on Save with what its validation
\* said, or another handler
EditorEvent(op, outcome) == [op |-> op, outcome |-> outcome]
OtherHandler == EditorEvent("other", "")

\* ---- what the user types and what the server answers

\* Leaflet.draw ends a shape of maxPoints 2 at its second point
DrawnPoints == {2}

TotalLapsTexts == {<<"2", ".", "5">>, <<>>}
IdealTimeTexts == {<<"4", "2", ".", "5">>, <<"-", "1">>, <<>>}

\* a line with a coordinate that is text
LineText == Line(Pt(JStr(<<"a">>), Lon1), Pt(Lat2, Lon1))

\* the answers of GET /api/get-config: each line is null or two points, the
\* total laps are an integer and the ideal time is a number
LoadResponses ==
    {LoadFailed} \cup
    {[status |-> 200,
      body |-> [start |-> s, finish |-> f, lap |-> l, totalLaps |-> n,
                idealTime |-> DefaultIdealTime]] :
        s \in {JNull, LineA, LineText}, f \in {JNull, LineB},
        l \in {JNull, LineC}, n \in {Num(3, 0), Num(-2, 0)}}

\* ---- the handlers of the editor

\* a click on a draw button: startDrawing(lineType); a second click on the
\* button of the type being drawn cancels the drawing
StartDrawing(type) ==
    /\ currentLineType' = IF currentLineType = type THEN NoType ELSE type
    /\ saveDisabled' = IF currentLineType = type
                       THEN checkSaveButtonState(drawnLines)
                       ELSE saveDisabled
    /\ editorLast' = OtherHandler
    /\ UNCHANGED <<drawnLines, drawnItems, totalLapsInput, idealTimeInput,
                 loading, saving, posted, clockVars, configVars, relayVars,
                 raceVars>>

\* the drawing tool completes a shape: map.on(L.Draw.Event.CREATED)
DrawCreated(points) ==
    /\ currentLineType # NoType
    /\ LET ed == OnCreated(Editor(drawnLines, drawnItems, totalLapsInput,
                                  idealTimeInput), currentLineType, points)
       IN /\ drawnLines' = ed.drawnLines
          /\ drawnItems' = ed.drawnItems
          /\ saveDisabled' = checkSaveButtonState(ed.drawnLines)
    /\ currentLineType' = NoType
    /\ editorLast' = OtherHandler
    /\ UNCHANGED <<totalLapsInput, idealTimeInput, loading, saving, posted,
                 clockVars, configVars, relayVars, raceVars>>

\* a click on btnClear: clearAllLocalState()
ClearClick ==
    /\ drawnLines' = clearAllLocalState.drawnLines
    /\ drawnItems' = clearAllLocalState.drawnItems
    /\ totalLapsInput' = clearAllLocalState.totalLaps
    /\ idealTimeInput' = clearAllLocalState.idealTime
    /\ currentLineType' = NoType
    /\ saveDisabled' = checkSaveButtonState(clearAllLocalState.drawnLines)
    /\ editorLast' = OtherHandler
    /\ UNCHANGED <<loading, saving, posted, clockVars, configVars, relayVars,
                 raceVars>>

\* the user types into the Total Laps input
TypeTotalLaps(text) ==
    /\ totalLapsInput' = text
    /\ editorLast' = OtherHandler
    /\ UNCHANGED <<drawnLines, drawnItems, currentLineType, saveDisabled,
                 idealTimeInput, loading, saving, posted, clockVars,
                 configVars, relayVars, raceVars>>

\* the user types into the Ideal Lap Time input
TypeIdealTime(text) ==
    /\ idealTimeInput' = text
    /\ editorLast' = OtherHandler
    /\ UNCHANGED <<drawnLines, drawnItems, currentLineType, saveDisabled,
                 totalLapsInput, loading, saving, posted, clockVars,
                 configVars, relayVars, raceVars>>

\* a click on btnSaveLines, which the browser delivers while the button is
\* enabled: the handler up to its await of fetch('/api/set-lines')
SaveClick ==
    /\ ~saveDisabled
    /\ LET v == ValidateSave(drawnLines, totalLapsInput, idealTimeInput)
       IN /\ v = "send" => posted < MaxPosts
          /\ posted' = IF v = "send" THEN posted + 1 ELSE posted
          /\ saving' = IF v = "send" THEN saving + 1 ELSE saving
          /\ saveDisabled' = IF v = "send" THEN TRUE
                             ELSE IF v = "lines"
                             THEN checkSaveButtonState(drawnLines)
                             ELSE saveDisabled
          /\ editorLast' = EditorEvent("save", v)
    /\ UNCHANGED <<drawnLines, drawnItems, currentLineType, totalLapsInput,
                 idealTimeInput, loading, clockVars, configVars, relayVars,
                 raceVars>>

\* the answer to a POST comes, or the request fails: the handler from its
\* await on, which ends in checkSaveButtonState()
SaveDone ==
    /\ saving > 0
    /\ saving' = saving - 1
    /\ saveDisabled' = checkSaveButtonState(drawnLines)
    /\ editorLast' = OtherHandler
    /\ UNCHANGED <<drawnLines, drawnItems, currentLineType, totalLapsInput,
                 idealTimeInput, loading, posted, clockVars, configVars,
                 relayVars, raceVars>>

\* the answer to the GET of loadInitialConfig comes, or the request fails
LoadDone(response) ==
    /\ loading
    /\ loading' = FALSE
    /\ LET ed == loadInitialConfig(response)
       IN /\ drawnLines' = ed.drawnLines
          /\ drawnItems' = ed.drawnItems
          /\ totalLapsInput' = ed.totalLaps
          /\ idealTimeInput' = ed.idealTime
          /\ saveDisabled' = checkSaveButtonState(ed.drawnLines)
    /\ currentLineType' = NoType
    /\ editorLast' = OtherHandler
    /\ UNCHANGED <<saving, posted, clockVars, configVars, relayVars, raceVars>>

\* ------------------------------------------------------------ the lap clock
\* src/unnamed/part_000

RECURSIVE Pow10(_)
Pow10(n) == IF n = 0 THEN 1 ELSE 10 * Pow10(n - 1)

\* the number n, for an integer n
NumOfInt(n) ==
    DigitsToNum(IF n < 0 THEN 0 - 1 ELSE 1, IntDigits(Abs(n)), 0)

\* the argument of parseFloat as a string
ToChars(v) ==
    IF v.t = "number" THEN NumberToString(v)
    ELSE IF v.t = "string" THEN v.s
    ELSE IF v.t = "boolean"
    THEN (IF v.b THEN <<"t", "r", "u", "e">> ELSE <<"f", "a", "l", "s", "e">>)
    ELSE <<"[", "o", "b", "j", "e", "c", "t", "]">>

\* Math.floor(x / 60) for a finite x >= 0
FloorMinutes(x) ==
    IF x.e >= 0 THEN (x.m * Pow10(x.e)) \div 60
    ELSE x.m \div (60 * Pow10(0 - x.e))

\* Math.round(x % 60) for a finite x >= 0: a half is rounded up
RoundSeconds(x) ==
    IF x.e >= 0 THEN (x.m * Pow10(x.e)) % 60
    ELSE LET scale == Pow10(0 - x.e)
             r == x.m % (60 * scale)
         IN (2 * r + scale) \div (2 * scale)

\* String(n).padStart(2, '0')
PadStart2(s) == IF Len(s) < 2 THEN Zeros(2 - Len(s)) \o s ELSE s

Chars_0000 == <<"0", "0", ":", "0", "0">>

\* a clock that shows the rounded seconds as they come
formatTimeJS_NoCarry(secs) ==
    IF secs.t \in {"null", "undefined"} THEN Chars_0000
    ELSE LET x == ParseFloatChars(ToChars(secs))
         IN IF IsNaN(x) \/ IsNegative(x) THEN Chars_0000
            ELSE IF x.k = "inf" THEN Chars_Infinity \o <<":">> \o Chars_NaN
            ELSE PadStart2(IntDigits(FloorMinutes(x))) \o <<":">>
                     \o PadStart2(IntDigits(RoundSeconds(x)))

\* formatTimeJS(seconds)
formatTimeJS(secs) ==
    IF secs.t \in {"null", "undefined"} THEN Chars_0000
    ELSE LET x == ParseFloatChars(ToChars(secs))
         IN IF IsNaN(x) \/ IsNegative(x) THEN Chars_0000
            ELSE IF x.k = "inf" THEN Chars_Infinity \o <<":">> \o Chars_NaN
            ELSE LET carry == RoundSeconds(x) = 60
                     minutes == FloorMinutes(x) + (IF carry THEN 1 ELSE 0)
                     remainingSeconds == IF carry THEN 0 ELSE RoundSeconds(x)
                 IN PadStart2(IntDigits(minutes)) \o <<":">>
                        \o PadStart2(IntDigits(remainingSeconds))

\* nothing formatted yet
NoClock == <<>>

\* the times the clock is asked to show: none, not a number, negative, whole
\* seconds, fractions next to a full minute, and times sent as text
ClockInputs ==
    {JNull, Undef, NaN, Num(-5, -1), JStr(<<"7", "5">>), JStr(<<"a">>)}
        \cup {NumOfInt(n) : n \in (0 - 2)..MaxSeconds}
        \cup {Num(m, -1) : m \in {5, 594, 595, 599, 1194, 1196}}

\* redrawAll(): the time is formatted
Format ==
    /\ clock = NoClock
    /\ clock' = formatTimeJS(seconds)
    /\ UNCHANGED <<seconds, editorVars, configVars, relayVars, raceVars>>

\* ------------------------------------------------------------ specifications

\* the relay after start-up, before its first connection
InitRelay ==
    /\ relayUp = TRUE
    /\ relayLink = FALSE
    /\ relayConnects = 0
    /\ relaySubLog = <<>>
    /\ relayGranted = {}
    /\ mqttConnected = FALSE
    /\ raceData = InitialRaceData
    /\ speedData = InitialSpeedData
    /\ sockets = {}
    /\ delivered = [c \in Clients |-> NoEmission]
    /\ relayLast = RelayEvent("none", "", NoMessage, <<>>)
    /\ pages = [c \in Clients |-> InitialPage]
    /\ casts = [e \in {"race_update", "speed_update", "mqtt_status"} |-> NoCast]

\* the editor when its DOMContentLoaded handler has run: nothing drawn, the
\* inputs as index.html sets them, the GET of loadInitialConfig in flight
InitEditor ==
    /\ drawnLines = [t \in LineTypes |-> NoLayer]
    /\ drawnItems = {}
    /\ currentLineType = NoType
    /\ saveDisabled = TRUE
    /\ totalLapsInput = <<"0">>
    /\ idealTimeInput = <<"6", "0">>
    /\ loading = TRUE
    /\ saving = 0
    /\ posted = 0
    /\ editorLast = OtherHandler

\* the race state machine and the detector after start-up
InitRace ==
    /\ total_laps = 0
    /\ raceState = IdleMachine.state
    /\ lapNumber = IdleMachine.lap
    /\ lapStart = IdleMachine.start
    /\ lapHistory = IdleMachine.history
    /\ lastTimestamp = IdleMachine.last
    /\ lastCrossing = [g \in Gates |-> NoTime]
    /\ raceEvents = <<>>
    /\ crossingLog = <<>>
    /\ crossed = 0
    /\ resets = 0

\* the connection history that goes with the connection state
InitLink ==
    /\ connects = IF connected THEN 1 ELSE 0
    /\ subLog = IF connected
                THEN <<[SubscribeRequest(1, Topics, 2) EXCEPT
                          !.state = IF subscribed THEN "granted" ELSE "pending"]>>
                ELSE <<>>

InitBackend ==
    /\ currentConfig = [t \in Topics |-> JNull]
    /\ received = [t \in Topics \cup {OTHER_TOPIC} |-> JNull]
    /\ reqs = [r \in 1..MaxReq |-> NewRequest]
    /\ pub = [r \in 1..MaxReq |-> [t \in Topics |-> "idle"]]
    /\ wire = <<>>
    /\ retained = [t \in Topics |-> JNull]
    /\ inbox = <<>>
    /\ InitLink
    /\ InitRelay
    /\ InitRace
    /\ InitEditor
    /\ clock = NoClock

\* the display page has no time to show yet
InitServer ==
    /\ InitBackend
    /\ seconds = Undef

\* the clock is asked to show any of the times
InitClock ==
    /\ connected = FALSE
    /\ subscribed = FALSE
    /\ InitBackend
    /\ seconds \in ClockInputs

\* one request with any body, on a server that is connected and subscribed
\* or not yet connected
Init ==
    /\ connected \in BOOLEAN
    /\ subscribed = connected
    /\ InitServer

Next ==
    \/ \E body \in Bodies : PostSetLines(1, body)
    \/ BrokerReceive
    \/ \E t \in Topics : PublishAck(1, t)
    \/ \E t \in Topics : PublishFail(1, t, MaxFail)
    \/ Timeout(1)
    \/ Deliver

Spec == Init /\ [][Next]_vars

\* several requests that may overlap, with failing publishes, on a connected
\* server whose subscription is not granted: no message comes back
InitOverlap ==
    /\ connected = TRUE
    /\ subscribed = FALSE
    /\ InitServer

NextOverlap ==
    \/ \E r \in 1..MaxReq : \E body \in ReplayBodies(r) : PostSetLines(r, body)
    \/ BrokerReceive
    \/ \E r \in 1..MaxReq, t \in Topics : PublishAck(r, t)
    \/ \E r \in 1..MaxReq, t \in Topics : PublishFail(r, t, MaxFailOverlap)
    \/ \E r \in 1..MaxReq : Timeout(r)

SpecOverlap == InitOverlap /\ [][NextOverlap]_vars

\* several requests that may overlap, every publish acknowledged, on a
\* connected and subscribed server
InitReplay ==
    /\ connected = TRUE
    /\ subscribed = TRUE
    /\ InitServer

NextReplay ==
    \/ \E r \in 1..MaxReq : \E body \in ReplayBodies(r) : PostSetLines(r, body)
    \/ BrokerReceive
    \/ \E r \in 1..MaxReq, t \in Topics : PublishAck(r, t)
    \/ \E r \in 1..MaxReq : Timeout(r)
    \/ Deliver

SpecReplay == InitReplay /\ [][NextReplay]_vars
\* one request with any body, and a timer that fires: setTimeout's callback
\* runs once its delay has passed
SpecLive == Init /\ [][Next]_vars /\ WF_vars(Timeout(1))

\* a subscribed server that receives the payloads of other publishers
InitStore ==
    /\ connected = TRUE
    /\ subscribed = TRUE
    /\ InitServer

NextStore ==
    \E topic \in Topics \cup {OTHER_TOPIC} :
        \E payload \in StorePayloads(topic) : Message(topic, payload)

SpecStore == InitStore /\ [][NextStore]_vars

\* one request on a connected server, each of whose publishes may fail
InitFail ==
    /\ connected = TRUE
    /\ subscribed = FALSE
    /\ InitServer

NextFail ==
    \/ PostSetLines(1, BodyA)
    \/ BrokerReceive
    \/ \E t \in Topics : PublishAck(1, t)
    \/ \E t \in Topics : PublishFail(1, t, totalTasks)
    \/ Timeout(1)

SpecFail == InitFail /\ [][NextFail]_vars

\* request r and its publishes are over: it was rejected, or it was answered
\* and its five callbacks were called
Settled(r) ==
    \/ reqs[r].phase = "done"
    \/ /\ reqs[r].phase = "open"
       /\ reqs[r].sent # <<>>
       /\ \A t \in Topics : pub[r][t] \in {"ok", "err"}

\* the configuration server with reconnections: requests arrive one after the
\* other, while it is connected or not
InitConnect ==
    /\ connected = FALSE
    /\ subscribed = FALSE
    /\ InitServer

NextConnect ==
    \/ Connect
    \/ \E err \in BOOLEAN : SubscribeDone(err)
    \/ Close
    \/ \E r \in 1..MaxReq :
        /\ \A r2 \in 1..(r - 1) : Settled(r2)
        /\ PostSetLines(r, BodyA)
    \/ BrokerReceive
    \/ \E r \in 1..MaxReq, t \in Topics : PublishAck(r, t)
    \/ \E r \in 1..MaxReq : Timeout(r)
    \/ Deliver

SpecConnect == InitConnect /\ [][NextConnect]_vars

\* the connections of the two processes to the bus
NextBus ==
    \/ Connect
    \/ \E err \in BOOLEAN : SubscribeDone(err)
    \/ Close
    \/ RelayConnect
    \/ \E t \in RelayTopics, err \in BOOLEAN : RelaySubscribeDone(t, err)
    \/ \E e \in {"reconnect", "close", "offline", "error"} : RelayDown(e)

SpecBus == InitConnect /\ [][NextBus]_vars

\* the relay: bus events, messages and web clients
NextRelay ==
    \/ RelayConnect
    \/ \E t \in RelayTopics, err \in BOOLEAN : RelaySubscribeDone(t, err)
    \/ \E e \in {"reconnect", "close", "offline", "error"} : RelayDown(e)
    \/ \E t \in RelayTopics : \E m \in RelayPayloads(t) : RelayMessage(t, m)
    \/ \E c \in Clients : ClientConnection(c)
    \/ \E c \in Clients : ClientDisconnect(c)

SpecRelay == InitConnect /\ [][NextRelay]_vars

\* the line editor: the user draws, clears, types and saves while the
\* requests of the page are answered
NextEditor ==
    \/ \E t \in LineTypes : StartDrawing(t)
    \/ \E n \in DrawnPoints : DrawCreated(n)
    \/ ClearClick
    \/ \E text \in TotalLapsTexts : TypeTotalLaps(text)
    \/ \E text \in IdealTimeTexts : TypeIdealTime(text)
    \/ SaveClick
    \/ SaveDone
    \/ \E response \in LoadResponses : LoadDone(response)

SpecEditor == InitConnect /\ [][NextEditor]_vars

\* the lap clock formats one time
NextClock == Format

SpecClock == InitClock /\ [][NextClock]_vars

\* the detector pipeline: crossings of any gate at any time, reset commands
\* and changes of the lap target
NextRace ==
    \/ \E g \in Gates, ts \in Times : Crossing(g, ts)
    \/ Reset
    \/ \E n \in LapTargets : ConfigureLaps(n)

SpecRace == InitConnect /\ [][NextRace]_vars

\* ------------------------------------------------------------ claims

Requests == 1..MaxReq

\* every callback of request r has been called
AllDone(r) == \A t \in Topics : pub[r][t] \in {"ok", "err"}

\* every publish of request r was acknowledged without error
AllAcked(r) == \A t \in Topics : pub[r][t] = "ok"

\* the topics whose publish failed for request r
FailedTopics(r) == {t \in Topics : pub[r][t] = "err"}

\* the payload request r publishes on a topic
PayloadOf(r, topic) ==
    CASE topic = MQTT_TOPIC_CONFIG_START -> LinePayload(reqs[r].body.start)
      [] topic = MQTT_TOPIC_CONFIG_FINISH -> LinePayload(reqs[r].body.finish)
      [] topic = MQTT_TOPIC_CONFIG_LAP -> LinePayload(reqs[r].body.lap)
      [] topic = MQTT_TOPIC_CONFIG_TOTAL_LAPS -> ConfigPayload(reqs[r].body.totalLaps)
      [] topic = MQTT_TOPIC_IDEAL_TIME -> ConfigPayload(reqs[r].body.idealTime)

SuccessResponse == Response(200, MsgSuccess, <<>>)

LastSent(q) == q.sent[Len(q.sent)]

\* C1: a success answer (200, "All lines and config published successfully!")
\* of a request is sent only when each of its five publishes has been
\* acknowledged without error.
C1_SuccessOnlyIfAllAcked ==
    \A r \in Requests : \A i \in 1..Len(reqs[r].sent) :
        (reqs[r].sent[i].status = 200 \/ reqs[r].sent[i].message = MsgSuccess)
            => AllAcked(r)

C1_Witness ==
    \E r \in Requests : reqs[r].sent = <<SuccessResponse>> /\ AllAcked(r)

\* C2: when an answer is sent while some acknowledgement of the request is
\* still missing, it is the timeout answer (508, "Timeout waiting ... might
\* not have saved"); when it is sent after all five callbacks with a failure
\* among them, it is the failure answer (500, "Error publishing ..."); the
\* two differ in status and in message.
C2_TimeoutDistinctFromFailure ==
    [][\A r \in Requests :
        (reqs[r].phase = "open" /\ Len(reqs'[r].sent) > Len(reqs[r].sent)) =>
            LET resp == LastSent(reqs'[r])
            IN /\ ~AllDone(r)' =>
                    /\ resp.status = 508 /\ resp.message = MsgTimeout
                    /\ resp.status # 500 /\ resp.message # MsgPublishError
               /\ (AllDone(r)' /\ FailedTopics(r)' # {}) =>
                    /\ resp.status = 500 /\ resp.message = MsgPublishError
                    /\ resp.status # 508 /\ resp.message # MsgTimeout]_vars

C2_Witness ==
    \E r \in Requests :
        /\ ~AllDone(r)
        /\ FailedTopics(r) # {}
        /\ Len(reqs[r].sent) = 1
        /\ reqs[r].sent[1] = Response(508, MsgTimeout, reqs[r].errors)

OtherTopics == Topics \ {MQTT_TOPIC_CONFIG_LAP}

\* the publish on config/lap_line failed and the other four were acknowledged
LapFailedOnly(r) ==
    /\ pub[r][MQTT_TOPIC_CONFIG_LAP] = "err"
    /\ \A t \in OtherTopics : pub[r][t] = "ok"

LapFailureResponse == Response(500, MsgPublishError, <<"Failed Lap line.">>)

OwnErrorEntries(r) == {ErrorEntry(t) : t \in FailedTopics(r)}

IsPrefix(a, b) == Len(a) <= Len(b) /\ SubSeq(b, 1, Len(a)) = a

\* C4: with overlapping requests, in every state the success count of a
\* request is the number of its own acknowledged publishes, its error list
\* holds exactly one entry per own failed publish, its responseSent flag is
\* set exactly when its own answer was sent, and the answer is the one its own
\* five outcomes (or its own timeout) decide; and a step changes the closure
\* of a request only when it is that request's arrival, callback or timeout.
C4_BookkeepingIsolated ==
    /\ [](\A r \in Requests :
            LET q == reqs[r]
            IN /\ q.successes = Cardinality({t \in Topics : pub[r][t] = "ok"})
               /\ Len(q.errors) = Cardinality(FailedTopics(r))
               /\ {q.errors[i] : i \in 1..Len(q.errors)} = OwnErrorEntries(r)
               /\ q.phase = "open" => (q.responseSent <=> Len(q.sent) = 1)
               /\ Len(q.sent) <= 1
               /\ (q.phase = "open" /\ Len(q.sent) = 1) =>
                    \/ q.sent[1] = SuccessResponse /\ AllAcked(r)
                    \/ /\ q.sent[1] = Response(500, MsgPublishError, q.errors)
                       /\ AllDone(r)
                       /\ FailedTopics(r) # {}
                    \/ /\ q.sent[1].status = 508
                       /\ q.sent[1].message = MsgTimeout
                       /\ IsPrefix(q.sent[1].details, q.errors)
                       /\ q.timer = "fired"
               /\ (q.phase = "open" /\ AllDone(r)) => Len(q.sent) = 1)
    /\ [][\A r \in Requests :
            reqs'[r] # reqs[r] =>
                /\ \A r2 \in Requests \ {r} : reqs'[r2] = reqs[r2]
                /\ \/ pub'[r] # pub[r]
                   \/ reqs'[r].timer # reqs[r].timer
                   \/ reqs'[r].phase # reqs[r].phase]_vars

\* two requests in flight at once, answered differently: the second got its
\* success answer while the first, with a failed publish, still waits for an
\* acknowledgement
C4_Witness ==
    /\ reqs[2].sent = <<SuccessResponse>>
    /\ reqs[1].phase = "open"
    /\ reqs[1].sent = <<>>
    /\ FailedTopics(1) # {}
    /\ \E t \in Topics : pub[1][t] = "taken"

IsTwoPoints(l) == l.t = "array" /\ Len(l.a) = 2

\* a gate whose two points are identical
Degenerate(l) == IsTwoPoints(l) /\ l.a[1] = l.a[2]

HasDegenerateLine(body) ==
    Degenerate(body.start) \/ Degenerate(body.finish) \/ Degenerate(body.lap)

\* C5: a request in which a gate's two points are identical is rejected at
\* validation (400) and publishes on none of the five config topics.
C5_DegenerateRejected ==
    \A r \in Requests :
        (reqs[r].phase # "new" /\ HasDegenerateLine(reqs[r].body)) =>
            /\ reqs[r].phase = "done"
            /\ Len(reqs[r].sent) = 1
            /\ reqs[r].sent[1].status = 400
            /\ \A t \in Topics : pub[r][t] = "idle"

\* a [number, number] point
WellFormedPoint(p) ==
    /\ p.t = "array"
    /\ Len(p.a) = 2
    /\ p.a[1].t = "number"
    /\ p.a[2].t = "number"

\* an array of exactly two [number, number] points
WellFormedLine(l) ==
    /\ l.t = "array"
    /\ Len(l.a) = 2
    /\ WellFormedPoint(l.a[1])
    /\ WellFormedPoint(l.a[2])

NonNegativeInteger(v) == v.t = "number" /\ v.k = "fin" /\ v.e >= 0 /\ v.m >= 0

NonNegativeNumber(v) == v.t = "number" /\ v.k # "nan" /\ v.m >= 0

\* the bodies C6 is about
Malformed(body) ==
    \/ ~WellFormedLine(body.start)
    \/ ~WellFormedLine(body.finish)
    \/ ~WellFormedLine(body.lap)
    \/ ~NonNegativeInteger(body.totalLaps)
    \/ ~NonNegativeNumber(body.idealTime)

\* C6: the arrival of a request whose body has a line that is missing or not
\* an array of exactly two [number, number] points, a totalLaps that is absent
\* or not a non-negative integer, or an idealTime that is absent or not a
\* non-negative number is answered 400 in that step, publishes nothing, arms
\* no timer and leaves the retained and the stored configuration unchanged;
\* nothing is published for it later.
C6_MalformedRejected ==
    /\ [][\A r \in Requests :
            (reqs[r].phase = "new" /\ reqs'[r].phase # "new"
             /\ Malformed(reqs'[r].body)) =>
                /\ reqs'[r].phase = "done"
                /\ Len(reqs'[r].sent) = 1
                /\ reqs'[r].sent[1].status = 400
                /\ reqs'[r].timer = "none"
                /\ pub' = pub
                /\ wire' = wire
                /\ retained' = retained
                /\ currentConfig' = currentConfig
                /\ inbox' = inbox]_vars
    /\ [](\A r \in Requests :
            (reqs[r].phase # "new" /\ Malformed(reqs[r].body)) =>
                /\ \A t \in Topics : pub[r][t] = "idle"
                /\ \A i \in 1..Len(wire) : wire[i].req # r
                /\ Len(reqs[r].sent) = 1
                /\ reqs[r].sent[1].status = 400)

C6_Witness ==
    \E r \in Requests :
        /\ reqs[r].phase = "done"
        /\ reqs[r].body.totalLaps = Num(25, -1)
        /\ reqs[r].sent = <<Response(400, MsgTotalLaps, <<>>)>>
        /\ connected

\* both requests carry the same body and all ten publishes were acknowledged
ReplayedAndAcked ==
    /\ reqs[1].phase = "open"
    /\ reqs[2].phase = "open"
    /\ reqs[1].body = reqs[2].body
    /\ AllAcked(1)
    /\ AllAcked(2)

\* every request posted besides the first is a replay of the first
OnlyReplays ==
    \A r \in Requests :
        /\ reqs[r].phase \in {"new", "open"}
        /\ reqs[r].phase = "open" => reqs[r].body = reqs[1].body

\* C7 as stated: after the same update was posted twice and every publish
\* acknowledged, each topic retains the payload of the update, as after the
\* first, and each of the two requests got its own success answer.
C7_Original ==
    ReplayedAndAcked =>
        /\ \A t \in Topics : retained[t] = PayloadOf(1, t)
        /\ reqs[1].sent = <<SuccessResponse>>
        /\ reqs[2].sent = <<SuccessResponse>>

\* C7, amended: from the moment the first update is fully acknowledged,
\* replays of the same update leave every topic's retained payload that of the
\* update, and once everything is delivered the stored configuration and the
\* answer of GET /api/get-config are those of the single update; each request
\* gets exactly one answer of its own, the success answer unless its timeout
\* fired before its last acknowledgement, in which case it is the timeout
\* answer (508).
C7_ReplayIdempotent ==
    /\ (reqs[1].phase = "open" /\ AllAcked(1) /\ OnlyReplays) =>
            /\ \A t \in Topics : retained[t] = PayloadOf(1, t)
            /\ (inbox = <<>> /\ wire = <<>>) =>
                /\ currentConfig = retained
                /\ GetConfig(currentConfig) =
                     GetConfig([t \in Topics |-> PayloadOf(1, t)])
    /\ \A r \in Requests :
        (reqs[r].phase = "open" /\ AllAcked(r)) =>
            /\ Len(reqs[r].sent) = 1
            /\ \/ reqs[r].sent[1] = SuccessResponse
               \/ /\ reqs[r].timer = "fired"
                  /\ reqs[r].sent[1] = Response(508, MsgTimeout, <<>>)
            /\ reqs[r].timer = "armed" => reqs[r].sent[1] = SuccessResponse

C7_Witness ==
    /\ ReplayedAndAcked
    /\ reqs[1].sent = <<SuccessResponse>>
    /\ reqs[2].sent = <<SuccessResponse>>
    /\ inbox = <<>>
    /\ \A t \in Topics : currentConfig[t] = PayloadOf(2, t)

\* C8: a request that passed validation on a connected server (its publishes
\* are issued and its timer armed) eventually has an answer, whichever
\* acknowledgements never arrive.
C8_EventuallyAnswered ==
    \A r \in Requests : (reqs[r].phase = "open") ~> (Len(reqs[r].sent) >= 1)

\* the timeout answered while some publish had neither been acknowledged nor
\* failed
C8_Witness ==
    \E r \in Requests :
        /\ reqs[r].phase = "open"
        /\ Len(reqs[r].sent) = 1
        /\ reqs[r].sent[1].status = 508
        /\ \E t \in Topics : pub[r][t] = "sent"

\* the stored payload does not parse as an integer (parseInt) / as a number
\* (parseFloat)
NoInteger(p) == IsNaN(ParseIntChars(PayloadChars(p)))
NoNumber(p) == IsNaN(ParseFloatChars(PayloadChars(p)))

C10_RoundTrip ==
    (reqs[1].phase = "open" /\ AllAcked(1) /\ wire = <<>> /\ inbox = <<>>) =>
        GetConfig(currentConfig) = [status |-> 200, body |-> reqs[1].body]

\* C11: the stored value of every config topic is the whole payload of the
\* last message received on that topic (null when none was received), and a
\* step that hands no new payload to a topic leaves its stored value as it was.
C11_StoredIsLastReceived ==
    /\ [](\A t \in Topics : currentConfig[t] = received[t])
    /\ [][\A t \in Topics :
            received'[t] = received[t] => currentConfig'[t] = currentConfig[t]]_vars

\* a text that is no JSON is stored whole on the start line, a line payload
\* on the lap line, a text with trailing letters on the total laps, and the
\* ideal time, never received, is still null
C11_Witness ==
    /\ received[MQTT_TOPIC_CONFIG_START] = Text(<<"a", "b", "c">>)
    /\ currentConfig[MQTT_TOPIC_CONFIG_START] = Text(<<"a", "b", "c">>)
    /\ currentConfig[MQTT_TOPIC_CONFIG_LAP] = LinePayload(LineA)
    /\ currentConfig[MQTT_TOPIC_CONFIG_TOTAL_LAPS] = Text(<<"1", "2", "a", "b", "c">>)
    /\ currentConfig[MQTT_TOPIC_IDEAL_TIME] = JNull

\* the topics of the subscribe requests issued on connection number n
RequestedOn(log, n) ==
    UNION {log[i].topics : i \in {j \in 1..Len(log) : log[j].conn = n}}

\* C12: every 'connect' event of the configuration server has been followed
\* by a subscribe request for the five config topics on that connection, and
\* every 'connect' event of the web display relay by subscribe requests for
\* gps/status and car/speed, on the first connection and on every reconnection.
C12_ResubscribesOnConnect ==
    /\ \A n \in 1..connects :
        RequestedOn(subLog, n) =
            {"config/start_line", "config/finish_line", "config/lap_line",
             "config/total_laps", "config/ideal_time"}
    /\ \A n \in 1..relayConnects :
        RequestedOn(relaySubLog, n) = {"gps/status", "car/speed"}

\* both processes are on their second connection and the first one's
\* subscription had been granted before it was lost
C12_Witness ==
    /\ connected /\ connects = 2
    /\ relayLink /\ relayConnects = 2
    /\ Len(subLog) = 2 /\ subLog[1].state = "granted" /\ subLog[2].conn = 2
    /\ Len(relaySubLog) = 4 /\ relaySubLog[1].state = "granted"

\* the entry that names the item published on a topic
FailureName(topic) ==
    CASE topic = "config/start_line" -> "Failed Start line."
      [] topic = "config/finish_line" -> "Failed Finish line."
      [] topic = "config/lap_line" -> "Failed Lap line."
      [] topic = "config/total_laps" -> "Failed Total Laps config."
      [] topic = "config/ideal_time" -> "Failed Ideal Time config."

IsFailureResponse(resp) == resp.status = 500 /\ resp.message = MsgPublishError

\* C13: a failure response sent for a request carries in details exactly one
\* entry for each topic whose publish failed, naming the item, and none for an
\* acknowledged topic: between 1 and 5 entries, 5 exactly when every publish
\* failed.
C13_FailuresItemized ==
    \A r \in Requests :
        \A k \in 1..Len(reqs[r].sent) :
            IsFailureResponse(reqs[r].sent[k]) =>
                LET d == reqs[r].sent[k].details
                IN /\ Len(d) = Cardinality(FailedTopics(r))
                   /\ {d[i] : i \in 1..Len(d)} =
                        {FailureName(t) : t \in FailedTopics(r)}
                   /\ Len(d) \in 1..5
                   /\ Len(d) = 5 <=> \A t \in Topics : pub[r][t] = "err"
                   /\ \A t \in Topics : pub[r][t] \in {"ok", "err"}

\* total failure: the failure response lists the five items
C13_Witness ==
    /\ \A t \in Topics : pub[1][t] = "err"
    /\ Len(reqs[1].sent) = 1
    /\ IsFailureResponse(reqs[1].sent[1])
    /\ Len(reqs[1].sent[1].details) = 5

\* the publishes of request r on a topic that are in a queue q
Issued(q, r, topic) == {i \in 1..Len(q) : q[i].req = r /\ q[i].topic = topic}

\* C14: the step that accepts a request hands exactly five publishes to the
\* client, one on each config topic, each with the retain flag set; no other
\* step hands over a publish of that request, whatever has happened to its
\* earlier publishes, and a rejected request hands over none.
C14_OnePublishPerTopic ==
    [][\A r \in Requests :
        IF reqs[r].phase = "new" /\ reqs'[r].phase = "open"
        THEN LET new == SubSeq(wire', Len(wire) + 1, Len(wire'))
             IN /\ SubSeq(wire', 1, Len(wire)) = wire
                /\ Len(new) = 5
                /\ \A t \in Topics : Cardinality(Issued(new, r, t)) = 1
                /\ \A i \in 1..Len(new) : new[i].options.retain
        ELSE \A t \in Topics :
                Cardinality(Issued(wire', r, t)) <= Cardinality(Issued(wire, r, t))
      ]_vars

\* a publish of the first request has failed, its other four were handed over
\* and one of them is still waiting for the broker with its retain flag set
C14_Witness ==
    /\ pub[1][MQTT_TOPIC_CONFIG_START] = "err"
    /\ \A t \in Topics : pub[1][t] # "idle"
    /\ pub[1][MQTT_TOPIC_IDEAL_TIME] = "sent"
    /\ Cardinality(Issued(wire, 1, MQTT_TOPIC_IDEAL_TIME)) = 1
    /\ \A i \in 1..Len(wire) : wire[i].options.retain

LastPosted ==
    CHOOSE r \in Requests :
        /\ reqs[r].phase = "open"
        /\ \A r2 \in Requests : r2 > r => reqs[r2].phase = "new"

\* C15: when every accepted request has all five publishes acknowledged, the
\* retained value of every config topic is the value of the request received
\* last, whatever the order in which the acknowledgements and timeouts of the
\* requests interleaved.
C15_LastWriterWins ==
    (/\ \E r \in Requests : reqs[r].phase = "open"
     /\ \A r \in Requests : reqs[r].phase = "open" => AllAcked(r)) =>
        \A t \in Topics : retained[t] = PayloadOf(LastPosted, t)

\* two different updates, all ten publishes acknowledged, the second retained
C15_Witness ==
    /\ reqs[1].phase = "open" /\ reqs[1].body = BodyA /\ AllAcked(1)
    /\ reqs[2].phase = "open" /\ reqs[2].body = BodyB /\ AllAcked(2)
    /\ \A t \in Topics : retained[t] = PayloadOf(2, t)
    /\ retained[MQTT_TOPIC_CONFIG_START] # PayloadOf(1, MQTT_TOPIC_CONFIG_START)

\* C16: a request that arrives while the client is not connected is answered
\* 500 "MQTT client not connected. Cannot save configuration.", hands no
\* publish to the client and arms no timer, then and ever after; a request
\* that arrives while the client is connected, also after such a rejection,
\* is accepted: its five publishes are handed over and its timer is armed.
C16_NotConnectedRejected ==
    /\ [][\A r \in Requests :
            (reqs[r].phase = "new" /\ reqs'[r].phase # "new") =>
                IF connected
                THEN /\ reqs'[r].phase = "open"
                     /\ reqs'[r].timer = "armed"
                     /\ Len(wire') = Len(wire) + 5
                ELSE /\ reqs'[r].phase = "done"
                     /\ reqs'[r].sent =
                          <<Response(500,
                              "MQTT client not connected. Cannot save configuration.",
                              <<>>)>>
                     /\ reqs'[r].timer = "none"
                     /\ wire' = wire
                     /\ pub' = pub]_vars
    /\ [](\A r \in Requests :
            reqs[r].phase = "done" =>
                /\ reqs[r].timer = "none"
                /\ Len(reqs[r].sent) = 1
                /\ \A t \in Topics : pub[r][t] = "idle"
                /\ \A i \in 1..Len(wire) : wire[i].req # r)

\* the first request was rejected for want of a connection; the second came
\* after the client had connected and got the success answer
C16_Witness ==
    /\ reqs[1].phase = "done"
    /\ reqs[1].sent[1].status = 500
    /\ reqs[1].sent[1].message = MsgNotConnected
    /\ reqs[2].phase = "open"
    /\ reqs[2].sent = <<SuccessResponse>>

\* the posted line of the body of request r that goes to a line topic
PostedLine(r, topic) ==
    CASE topic = "config/start_line" -> reqs[r].body.start
      [] topic = "config/finish_line" -> reqs[r].body.finish
      [] topic = "config/lap_line" -> reqs[r].body.lap

PostedScalar(r, topic) ==
    CASE topic = "config/total_laps" -> reqs[r].body.totalLaps
      [] topic = "config/ideal_time" -> reqs[r].body.idealTime

\* [lon, lat] of a posted [lat, lon] point
Swapped(p) == JArr(<<p.a[2], p.a[1]>>)

\* C17: every publish handed to the client for a line topic carries the text
\* of a JSON object with exactly the members p1 and p2, each the posted point
\* in [lon, lat] order; every publish for config/total_laps and
\* config/ideal_time carries plain text, no JSON array, object or string, that
\* is String(n) of the posted number n and reads back as n.
C17_PayloadFormats ==
    \A i \in 1..Len(wire) :
        LET m == wire[i]
        IN IF m.topic \in {"config/start_line", "config/finish_line", "config/lap_line"}
           THEN /\ m.payload.t = "json"
                /\ m.payload.v.t = "jobj"
                /\ m.payload.v.keys = <<"p1", "p2">>
                /\ JsonParse(m.payload) =
                     JObj(<<"p1", "p2">>,
                          <<Swapped(PostedLine(m.req, m.topic).a[1]),
                            Swapped(PostedLine(m.req, m.topic).a[2])>>)
           ELSE /\ m.topic \in {"config/total_laps", "config/ideal_time"}
                /\ m.payload.t = "text"
                /\ m.payload.s = NumberToString(PostedScalar(m.req, m.topic))
                /\ ParseFloatChars(m.payload.s) = PostedScalar(m.req, m.topic)

\* the five publishes of the update {start: [[49.6, 6.1], [49.601, 6.1]], ..,
\* totalLaps: 3, idealTime: 1e-7} wait for the broker
C17_Witness ==
    /\ Len(wire) = 5
    /\ reqs[1].body.idealTime = Num(1, -7)
    /\ JsonParse(wire[1].payload) =
         JObj(<<"p1", "p2">>, <<JArr(<<Num(61, -1), Num(496, -1)>>),
                              JArr(<<Num(61, -1), Num(49601, -3)>>)>>)
    /\ wire[4].payload = Text(<<"3">>)
    /\ wire[5].payload = Text(<<"1", "e", "-", "7">>)

\* C18 as stated: whatever payloads were received, an answer 200 of
\* GET /api/get-config has totalLaps a non-negative integer and idealTime a
\* non-negative number.
C18_ResponseNonNegative ==
    LET resp == GetConfig(currentConfig)
    IN resp.status = 200 =>
        /\ NonNegativeInteger(resp.body.totalLaps)
        /\ NonNegativeNumber(resp.body.idealTime)

\* a payload is the text of a JSON object whose p1 and p2 are two numbers each
IsLinePayload(p) ==
    /\ p # JNull
    /\ p.t = "json"
    /\ LET v == JsonParse(p)
       IN /\ v.t = "object"
          /\ v.keys = <<"p1", "p2">>
          /\ WellFormedPoint(v.vals[1])
          /\ WellFormedPoint(v.vals[2])

\* the [lat, lon] line of a line payload
LineOf(p) ==
    LET v == JsonParse(p) IN JArr(<<Swapped(v.vals[1]), Swapped(v.vals[2])>>)

\* C19: when each of the three line topics either was never received or holds
\* a line payload, GET /api/get-config answers 200 whatever the total laps and
\* ideal time payloads are, and reports null for exactly the lines never
\* received and the parsed [lat, lon] line for the others.
C19_IncompleteConfig ==
    LET resp == GetConfig(currentConfig)
        Reported(t) == IF received[t] = JNull THEN JNull ELSE LineOf(received[t])
    IN (\A t \in LineTopics : received[t] = JNull \/ IsLinePayload(received[t])) =>
        /\ resp.status = 200
        /\ resp.body.start = Reported("config/start_line")
        /\ resp.body.finish = Reported("config/finish_line")
        /\ resp.body.lap = Reported("config/lap_line")

\* only the finish line has been received
C19_Witness ==
    /\ received["config/start_line"] = JNull
    /\ received["config/lap_line"] = JNull
    /\ IsLinePayload(received["config/finish_line"])
    /\ GetConfig(currentConfig).status = 200
    /\ GetConfig(currentConfig).body.start = JNull
    /\ GetConfig(currentConfig).body.finish = LineA
    /\ GetConfig(currentConfig).body.lap = JNull

\* the members the READMEs document for a gps/status payload
DocumentedKeys ==
    {"has_fix", "fix_quality", "num_satellites", "latitude", "longitude",
     "speed_knots", "timestamp"}

DocumentedShape(v) ==
    /\ v.t = "object"
    /\ {v.keys[i] : i \in 1..Len(v.keys)} = DocumentedKeys

\* C20 as stated: when the relay has handled a gps/status message of the
\* documented shape, its state holds the members of the payload and its
\* handler has emitted the update to the connected web clients.
C20_GpsStatusConsumed ==
    (/\ relayLast.name = "message"
     /\ relayLast.topic = "gps/status"
     /\ DocumentedShape(JsonParse(relayLast.message))) =>
        /\ \A k \in DocumentedKeys :
            GetProp(raceData, k) = GetProp(JsonParse(relayLast.message), k)
        /\ Len(relayLast.emits) = 1
        /\ relayLast.emits[1].to = "all"
        /\ \A c \in sockets : delivered[c] = relayLast.emits[1]

\* the payloads that are not valid JSON
InvalidPayloads == {m \in GpsPayloads \cup SpeedPayloads : JsonParse(m) = Throw}

\* the relay has just handled a message whose payload is not valid JSON
InvalidJsonHandled ==
    /\ relayLast.name = "message"
    /\ relayLast.message \in InvalidPayloads

\* C21: a message whose payload is not valid JSON, received by the relay on
\* either of its topics, leaves raceData, speedData and what the web clients
\* hold unchanged, emits nothing and does not end the process: the relay
\* keeps its connection and its subscriptions, so that it handles the
\* following messages as it would have without the invalid one.
C21_InvalidJsonIgnored ==
    [][(relayLast' # relayLast /\ relayLast'.name = "message"
            /\ relayLast'.message \in InvalidPayloads) =>
            /\ relayUp'
            /\ raceData' = raceData
            /\ speedData' = speedData
            /\ delivered' = delivered
            /\ relayLast'.emits = <<>>
            /\ relayLink' /\ relayGranted' = relayGranted
            /\ mqttConnected' = mqttConnected]_vars

\* an invalid payload has been handled on car/speed while a web client is
\* connected and race data has been received before
C21_Witness ==
    /\ InvalidJsonHandled
    /\ relayLast.topic = MQTT_TOPIC_SPEED
    /\ sockets # {}
    /\ raceData # InitialRaceData

\* ---- the race state machine

\* the crossing events the detector has emitted since the last reset
FedEvents == SelectSeq(crossingLog, LAMBDA e : e.event)

\* the names of the race events emitted since the last reset
EventNames == [i \in 1..Len(raceEvents) |-> raceEvents[i].event]

\* the crossing events since Idle are start, lap, lap, finish, in the order of
\* their timestamps, each taken with no lap target configured
StartLapLapFinish ==
    /\ [i \in 1..Len(FedEvents) |-> FedEvents[i].gate] =
         <<"start", "lap", "lap", "finish">>
    /\ \A i \in 1..Len(FedEvents) : FedEvents[i].total_laps = 0
    /\ \A i \in 1..(Len(FedEvents) - 1) :
         FedEvents[i].timestamp <= FedEvents[i + 1].timestamp

\* C22: from Idle, the crossing events start, lap, lap, finish with
\* total_laps = 0 produce race_started, lap_completed, lap_completed and
\* race_finished, in that order and nothing else, and leave the machine
\* Finished with a lap history of length 3.
C22_StartLapLapFinish ==
    StartLapLapFinish =>
        /\ EventNames = <<"race_started", "lap_completed", "lap_completed",
                          "race_finished">>
        /\ raceState = "Finished"
        /\ Len(lapHistory) = 3

\* the four crossings have happened, the race is over
C22_Witness ==
    /\ StartLapLapFinish
    /\ raceState = "Finished"
    /\ Len(lapHistory) = 3

\* C23: once Finished, a crossing of any gate leaves the race state, the lap
\* number and the lap history unchanged and emits no race event; only the
\* reset command leaves Finished, for Idle with an empty lap history.
C23_FinishedIgnoresCrossings ==
    [][raceState = "Finished" =>
        IF resets' # resets
        THEN raceState' = "Idle" /\ lapHistory' = <<>> /\ lapNumber' = 0
        ELSE /\ raceState' = "Finished"
             /\ lapHistory' = lapHistory
             /\ lapNumber' = lapNumber
             /\ raceEvents' = raceEvents]_vars

\* a crossing event later than the finish has been handled in Finished
C23_Witness ==
    /\ raceState = "Finished"
    /\ crossingLog # <<>>
    /\ crossingLog[Len(crossingLog)].event
    /\ crossingLog[Len(crossingLog)].timestamp >
         raceEvents[Len(raceEvents)].timestamp

\* the last geometric crossing produced a crossing event earlier than t
EarlierThan(log, t) ==
    /\ log # <<>>
    /\ log[Len(log)].event
    /\ t # NoTime
    /\ log[Len(log)].timestamp < t

\* C24: a crossing event earlier than the last timestamp the state machine
\* recorded changes neither the race state nor the lap number nor the lap
\* history and emits nothing; without a reset the lap number and the length
\* of the lap history never decrease.
C24_OutOfOrderDiscarded ==
    /\ [][(crossed' # crossed /\ EarlierThan(crossingLog', lastTimestamp)) =>
            /\ raceState' = raceState
            /\ lapNumber' = lapNumber
            /\ lapHistory' = lapHistory
            /\ lastTimestamp' = lastTimestamp
            /\ raceEvents' = raceEvents]_vars
    /\ [][resets' = resets =>
            /\ lapNumber' >= lapNumber
            /\ Len(lapHistory') >= Len(lapHistory)
            /\ \A i \in 1..Len(lapHistory) : lapHistory'[i] = lapHistory[i]]_vars

\* a lap-line crossing event earlier than the recorded timestamp has been
\* handled during the race
C24_Witness ==
    /\ raceState = "Running"
    /\ EarlierThan(crossingLog, lastTimestamp)
    /\ crossingLog[Len(crossingLog)].gate = "lap"

\* crossings i and j of the log are of the same gate, less than the dwell
\* window apart
WithinDwell(i, j) ==
    /\ crossingLog[i].gate = crossingLog[j].gate
    /\ crossingLog[j].timestamp - crossingLog[i].timestamp < DwellWindow
    /\ crossingLog[i].timestamp - crossingLog[j].timestamp < DwellWindow

\* crossing i does not fall into the dwell window of an earlier crossing
\* event of its gate
Quiet(i) ==
    \A k \in 1..(i - 1) :
        (crossingLog[k].gate = crossingLog[i].gate /\ crossingLog[k].event) =>
            crossingLog[i].timestamp - crossingLog[k].timestamp >= DwellWindow

\* C25: two geometric crossings of the same gate less than the dwell window
\* apart never produce two crossing events, and produce exactly one when the
\* first of them does not itself fall into the dwell window of an earlier
\* event of the gate.
C25_Debounce ==
    \A i \in 1..Len(crossingLog) : \A j \in (i + 1)..Len(crossingLog) :
        WithinDwell(i, j) =>
            /\ ~(crossingLog[i].event /\ crossingLog[j].event)
            /\ Quiet(i) => (crossingLog[i].event /\ ~crossingLog[j].event)

\* the lap line crossed twice within the dwell window during the race
C25_Witness ==
    /\ Len(crossingLog) >= 3
    /\ WithinDwell(Len(crossingLog) - 1, Len(crossingLog))
    /\ crossingLog[Len(crossingLog)].gate = "lap"
    /\ Quiet(Len(crossingLog) - 1)
    /\ crossingLog[Len(crossingLog)].timestamp >
         crossingLog[Len(crossingLog) - 1].timestamp

\* C26: a POST /api/set-lines request gets at most one response, however its
\* five publish callbacks and its timeout interleave: once a response was
\* sent (by the timeout or by checkCompletion) no later callback or timeout
\* sends another.
C26_AtMostOneResponse ==
    /\ [](\A r \in Requests : Len(reqs[r].sent) <= 1)
    /\ [][\A r \in Requests :
            reqs[r].sent # <<>> => reqs'[r].sent = reqs[r].sent]_vars

\* the timeout answered first, the five callbacks came afterwards, and the
\* timeout answer is still the only one
C26_Witness ==
    \E r \in Requests :
        /\ reqs[r].timer = "fired"
        /\ AllDone(r)
        /\ Len(reqs[r].sent) = 1
        /\ reqs[r].sent[1].status = 508
        /\ Len(reqs[r].sent[1].details) < Len(reqs[r].errors)

\* C27: the failure answer (500, "Error publishing some configuration
\* parts.") of a request is sent only once all five of its publish callbacks
\* were called; a callback that reports a failure while another callback is
\* outstanding sends nothing, and when the timeout fires in that situation
\* the caller gets the timeout answer.
C27_FailureOnlyAfterAllCallbacks ==
    /\ [](\A r \in Requests : \A i \in 1..Len(reqs[r].sent) :
            reqs[r].sent[i].message = MsgPublishError => AllDone(r))
    /\ [][\A r \in Requests :
            (FailedTopics(r)' # {} /\ ~AllDone(r)') =>
                \/ reqs'[r].sent = reqs[r].sent
                \/ /\ reqs[r].timer = "armed" /\ reqs'[r].timer = "fired"
                   /\ reqs'[r].sent =
                        <<Response(508, MsgTimeout, reqs[r].errors)>>]_vars
    /\ [](\A r \in Requests :
            (FailedTopics(r) # {} /\ ~AllDone(r) /\ reqs[r].timer = "fired") =>
                /\ Len(reqs[r].sent) = 1
                /\ reqs[r].sent[1].status = 508
                /\ reqs[r].sent[1].message = MsgTimeout)

\* one publish failed, another has not completed, the timer has fired
C27_Witness ==
    \E r \in Requests :
        /\ FailedTopics(r) # {}
        /\ \E t \in Topics : pub[r][t] = "taken"
        /\ reqs[r].timer = "fired"
        /\ reqs[r].sent = <<Response(508, MsgTimeout, reqs[r].errors)>>

\* request r is the latest one, and its messages are the five the subscriber
\* has not yet handled
Undelivered(r) ==
    /\ \A r2 \in Requests : r2 > r => reqs[r2].phase = "new"
    /\ Len(inbox) = totalTasks
    /\ \A i \in 1..totalTasks :
        /\ inbox[i].topic = PublishTasks(reqs[r].body)[i].topic
        /\ inbox[i].payload = PublishTasks(reqs[r].body)[i].payload

\* the configuration stored before request r: the payloads of the request
\* before it, or nothing
StoredBefore(r) ==
    [t \in Topics |-> IF r = 1 THEN JNull ELSE PayloadOf(r - 1, t)]

\* C28: the stored value of a config topic changes only in a step that hands
\* a message on that topic to the message handler, and then to the payload of
\* that message; POST /api/set-lines itself writes nothing, so that after the
\* success answer of a request and before its messages come back, GET
\* /api/get-config still answers with the configuration stored before.
C28_PostDoesNotWriteStore ==
    /\ [][\A t \in Topics :
            currentConfig'[t] # currentConfig[t] =>
                /\ inbox # <<>>
                /\ Head(inbox).topic = t
                /\ currentConfig'[t] = Head(inbox).payload
                /\ inbox' = Tail(inbox)
                /\ reqs' = reqs]_vars
    /\ [](\A r \in Requests :
            (reqs[r].sent = <<SuccessResponse>> /\ Undelivered(r)) =>
                /\ currentConfig = StoredBefore(r)
                /\ GetConfig(currentConfig) = GetConfig(StoredBefore(r)))

\* a second request with another body has its success answer while its five
\* messages wait to be delivered
C28_Witness ==
    \E r \in Requests :
        /\ r > 1
        /\ reqs[r].sent = <<SuccessResponse>>
        /\ Undelivered(r)
        /\ reqs[r].body # reqs[r - 1].body
        /\ GetConfig(currentConfig) = [status |-> 200, body |-> reqs[r - 1].body]

\* a payload is the text of a JSON object with array members p1 and p2
IsLineObject(p) ==
    /\ p.t = "json"
    /\ LET v == JsonParse(p)
       IN /\ v.t = "object"
          /\ GetProp(v, "p1").t = "array"
          /\ GetProp(v, "p2").t = "array"

\* C29 as stated: while the payload stored for a line topic is not the text
\* of a JSON object with array members p1 and p2, GET /api/get-config answers
\* 500 and carries no configuration; the message handler has stored the
\* payload as it came.
C29_MalformedLineAnswers500 ==
    \A t \in LineTopics :
        (Stored(received[t]) /\ ~IsLineObject(received[t])) =>
            /\ currentConfig[t] = received[t]
            /\ GetConfig(currentConfig).status = 500
            /\ GetConfig(currentConfig).message = MsgParseError

\* C30: a message on a topic that is none of the five config topics leaves
\* the stored value of every config topic, and the set of stored topics, as
\* they were.
C30_OtherTopicIgnored ==
    [][received'[OTHER_TOPIC] # received[OTHER_TOPIC] =>
            currentConfig' = currentConfig]_vars

\* a line payload came on gps/status after payloads were stored for the
\* start line and the total laps
C30_Witness ==
    /\ received[OTHER_TOPIC] = LinePayload(LineA)
    /\ currentConfig[MQTT_TOPIC_CONFIG_START] = Text(<<"a", "b", "c">>)
    /\ currentConfig[MQTT_TOPIC_CONFIG_TOTAL_LAPS] = Text(<<"3">>)
    /\ DOMAIN currentConfig = Topics

\* the gps/status payloads as JSON.parse reads them
ParsedGps == [m \in GpsPayloads |-> JsonParse(m)]

\* the payloads that parse to an object with all five required keys
GpsComplete ==
    {m \in GpsPayloads :
        /\ ParsedGps[m] # Throw
        /\ \A i \in 1..Len(requiredKeys) : HasKey(requiredKeys[i], ParsedGps[m])}

KeySet(v) == {v.keys[i] : i \in 1..Len(v.keys)}

\* new holds the members of p, and those of old that p does not have
MergedInto(old, p, new) ==
    /\ KeySet(new) = KeySet(old) \cup KeySet(p)
    /\ \A k \in KeySet(p) : GetProp(new, k) = GetProp(p, k)
    /\ \A k \in KeySet(old) \ KeySet(p) : GetProp(new, k) = GetProp(old, k)

\* C31: a gps/status payload that lacks one of the five required keys leaves
\* raceData as it was and no race_update is emitted; a payload with all five
\* is merged into raceData and exactly one race_update, carrying the merged
\* raceData, goes to all connected clients.
C31_GpsRequiresFiveKeys ==
    [][(relayLast' # relayLast /\ relayLast'.name = "message"
            /\ relayLast'.topic = MQTT_TOPIC_GPS) =>
          IF relayLast'.message \in GpsComplete
          THEN /\ MergedInto(raceData, ParsedGps[relayLast'.message], raceData')
               /\ relayLast'.emits =
                    <<Emission("all", "race_update", raceData')>>
               /\ \A c \in sockets : delivered'[c] = relayLast'.emits[1]
          ELSE /\ raceData' = raceData
               /\ relayLast'.emits = <<>>
               /\ delivered' = delivered]_vars

\* a payload with four of the keys was dropped after one with all five and a
\* timestamp had been merged and sent to a connected client
C31_Witness ==
    /\ relayLast.name = "message"
    /\ relayLast.message = RacePartial
    /\ relayLast.emits = <<>>
    /\ raceData = Spread(InitialRaceData, ParsedGps[RaceStatus2])
    /\ \E c \in sockets :
        delivered[c] = Emission("all", "race_update", raceData)

BusEvents == {"connect", "reconnect", "close", "offline", "error"}

\* C32: mqttConnected is false at start-up, true after a 'connect' event and
\* false after 'reconnect', 'close', 'offline' and 'error'; no other step
\* changes it; and each of these handlers broadcasts one mqtt_status event
\* that carries the value it has set.
C32_FlagFollowsBusEvents ==
    /\ [](relayLast.name = "none" => ~mqttConnected)
    /\ [][(relayLast' # relayLast /\ relayLast'.name \in BusEvents) =>
            /\ mqttConnected' = (relayLast'.name = "connect")
            /\ relayLast'.emits =
                 <<Emission("all", "mqtt_status", StatusData(mqttConnected'))>>
            /\ \A c \in sockets : delivered'[c] = relayLast'.emits[1]]_vars
    /\ [][(relayLast' = relayLast \/ relayLast'.name \notin BusEvents) =>
            mqttConnected' = mqttConnected]_vars

\* an 'error' event came while the connection was up: the flag is cleared
\* and a connected client was told so
C32_Witness ==
    /\ relayLast.name = "error"
    /\ relayLink
    /\ ~mqttConnected
    /\ \E c \in sockets :
        delivered[c] = Emission("all", "mqtt_status", StatusData(FALSE))

\* the data the last broadcast of an event carried, or the value the relay
\* starts with if there was none
LastCast(event, default) ==
    IF casts[event] = NoCast THEN default ELSE casts[event]

\* C33: a web client that connects is sent one initial_state whose raceData,
\* speedData and mqttConnected are the values the last race_update,
\* speed_update and mqtt_status broadcasts carried (the start-up values if
\* there was none), so that every connected page, whenever it connected,
\* shows the state of the last broadcasts.
C33_InitialStateIsLatest ==
    /\ [](\A c \in sockets :
            /\ pages[c].currentRaceData = LastCast("race_update", InitialRaceData)
            /\ pages[c].currentSpeedKmh =
                 Nullish(GetProp(LastCast("speed_update", InitialSpeedData),
                                 "speed_kmh"), Num(0, 0))
            /\ pages[c].isMqttConnected =
                 GetProp(LastCast("mqtt_status", StatusData(FALSE)), "connected")
            /\ \A c2 \in sockets : pages[c2] = pages[c])
    /\ [][\A c \in sockets' \ sockets :
            delivered'[c] =
              Emission("socket", "initial_state",
                  JObj(<<"raceData", "speedData", "mqttConnected">>,
                       <<LastCast("race_update", InitialRaceData),
                         LastCast("speed_update", InitialSpeedData),
                         GetProp(LastCast("mqtt_status", StatusData(FALSE)),
                                 "connected")>>))]_vars

\* client 1 connected early and has followed the broadcasts, client 2 has
\* just connected: both pages show the merged race data, the speed and the
\* bus as up
C33_Witness ==
    /\ sockets = {1, 2}
    /\ delivered[1].event = "speed_update"
    /\ delivered[2].event = "initial_state"
    /\ casts["race_update"] # NoCast
    /\ pages[2].currentRaceData = raceData
    /\ raceData # InitialRaceData
    /\ pages[2].currentSpeedKmh = Num(425, -1)
    /\ pages[2].isMqttConnected = JBool(TRUE)
    /\ pages[1] = pages[2]

\* C34 as stated: while no save request is in flight (checkSaveButtonState
\* has run at the end of every handler that changes a line) the Save button
\* is enabled exactly when the start, the lap and the finish line are all
\* present, and while a save request is in flight the button is disabled.
C34_SaveButtonFollowsLines ==
    /\ saving = 0 =>
         (~saveDisabled <=> \A t \in LineTypes : drawnLines[t] # NoLayer)
    /\ saving > 0 => saveDisabled

\* the layers the lines refer to
HeldLayers == {drawnLines[t] : t \in LineTypes} \ {NoLayer}

\* C35: the layers of the feature group drawnItems are exactly the non-null
\* entries of drawnLines, and no two line types share a layer: a line drawn
\* for a type that has one replaces it and leaves no orphan layer.
C35_GroupHoldsDrawnLines ==
    /\ drawnItems = HeldLayers
    /\ \A t1, t2 \in LineTypes :
        (drawnLines[t1] # NoLayer /\ drawnLines[t1] = drawnLines[t2]) => t1 = t2

\* the three lines are present and the start line has been drawn a second
\* time: the group holds its new layer and no longer its first
C35_Witness ==
    /\ ~loading
    /\ drawnLines = [t \in LineTypes |->
                       IF t = "start" THEN 2 ELSE IF t = "lap" THEN 3 ELSE 5]
    /\ drawnItems = {2, 3, 5}

\* the text parses to an integer >= 0
ParsesToLaps(text) ==
    LET v == ParseIntChars(text)
    IN v.k = "fin" /\ v.e >= 0 /\ v.m >= 0

\* the text parses to a number >= 0
ParsesToTime(text) ==
    LET v == ParseFloatChars(text)
    IN v.k # "nan" /\ v.m >= 0

\* C36: a POST /api/set-lines is sent only when the three lines are present,
\* Total Laps parses to an integer >= 0 and Ideal Lap Time parses to a
\* number >= 0; a click on Save leaves the lines, the layers and the two
\* inputs as they were.
C36_NoPostWhenInvalid ==
    /\ [][posted' # posted =>
            /\ \A t \in LineTypes : drawnLines[t] # NoLayer
            /\ ParsesToLaps(totalLapsInput)
            /\ ParsesToTime(idealTimeInput)]_vars
    /\ [][(editorLast' # editorLast /\ editorLast'.op = "save") =>
            /\ UNCHANGED <<drawnLines, drawnItems, totalLapsInput,
                          idealTimeInput>>
            /\ editorLast'.outcome # "send" =>
                 UNCHANGED <<posted, saving>>]_vars

\* Save was clicked with the three lines drawn, Total Laps at 3 and the Ideal
\* Lap Time at -1: the handler stopped at the ideal time and nothing was sent
C36_Witness ==
    /\ editorLast = EditorEvent("save", "idealTime")
    /\ \A t \in LineTypes : drawnLines[t] # NoLayer
    /\ totalLapsInput = <<"3">>
    /\ idealTimeInput = <<"-", "1">>
    /\ posted = 0

\* the position of the colon in a formatted time, 0 when it has none
ColonAt(c) ==
    IF \E i \in 1..Len(c) : c[i] = ":"
    THEN CHOOSE i \in 1..Len(c) : c[i] = ":" /\ \A j \in 1..(i - 1) : c[j] # ":"
    ELSE 0

MinutesPart(c) == SubSeq(c, 1, ColonAt(c) - 1)
SecondsPart(c) == SubSeq(c, ColonAt(c) + 1, Len(c))

AllDigits(ds) == ds # <<>> /\ \A i \in 1..Len(ds) : IsDigit(ds[i])

\* C37: formatTimeJS returns "00:00" for null, undefined, NaN and negative
\* input; for a whole number s >= 0 of seconds it returns minutes:seconds
\* with the seconds in 0..59 on two digits and minutes * 60 + seconds = s;
\* for no input is the seconds part 60.
C37_FormatTime ==
    clock # NoClock =>
        /\ (seconds \in {JNull, Undef} \/ IsNaN(seconds) \/ IsNegative(seconds))
               => clock = Chars_0000
        /\ (seconds.t = "number" /\ seconds.k = "fin" /\ seconds.e >= 0
                /\ seconds.m >= 0) =>
               /\ ColonAt(clock) > 0
               /\ AllDigits(MinutesPart(clock))
               /\ AllDigits(SecondsPart(clock))
               /\ Len(MinutesPart(clock)) >= 2
               /\ Len(SecondsPart(clock)) = 2
               /\ DigitsInt(SecondsPart(clock)) \in 0..59
               /\ DigitsInt(MinutesPart(clock)) * 60
                      + DigitsInt(SecondsPart(clock))
                    = seconds.m * Pow10(seconds.e)
        /\ ColonAt(clock) > 0 => SecondsPart(clock) # <<"6", "0">>

\* 125 whole seconds are shown as 02:05
C37_Witness ==
    /\ seconds = NumOfInt(125)
    /\ clock = <<"0", "2", ":", "0", "5">>

====
